---- MODULE Spec2Model ----
(***************************************************************************)
(* PLC-Agent / PlainLogic: the rung splitter, the token classifier, the    *)
(* rung digest builder (likeaversion.py), the comparator                   *)
(* (likeaversion_compare.py), the alignment index builder (rung_index.py)  *)
(* and the clean-text writer (goodlad.py); and the processing run of the   *)
(* window (ui.py) with the pause and stop checks of agent.py.              *)
(*                                                                         *)
(* Python values are modelled as follows.  A str is a TLA+ string; a list  *)
(* is a sequence; a dict is a function whose DOMAIN is its key set (a      *)
(* missing key is a key outside DOMAIN); None is the string "None", except *)
(* for the splitter's accumulator, which is a record with an `open` flag   *)
(* because an open empty list and None must stay distinct.                 *)
(***************************************************************************)
EXTENDS Integers, Sequences, FiniteSets, TLC

VARIABLES
    raw_text,           \* splitter: the text of one LADxxx.raw.txt file
    tokens,             \* splitter: raw_text.split()
    idx,                \* splitter: position of the for loop in tokens
    cur,                \* splitter: the open accumulator, or None
    rungs,              \* splitter: the closed rungs, as token lists
    rung_texts,         \* process_ladder_file: what _split_rungs returned
    ladder,             \* process_ladder_file: the ladder dict it returns
    left_file,          \* comparator run: content of left_index_path
    right_file,         \* comparator run: content of right_index_path
    left_idx,           \* comparator: the loaded left document
    right_idx,          \* comparator: the loaded right document
    include_all_rungs,  \* comparator: the flag compare_revisions was given
    report,             \* comparator: what compare_revisions returned
    output_file,        \* comparator run: content of output_path
    exc,                \* the exception that ended the function, or None
    pc,                 \* position of the running function
    tok_i,              \* classifier: the index i of its while loop
    structural_tokens,  \* classifier: the structural stream so far
    parameter_tokens,   \* classifier: the (key, value) parameters so far
    runtime_tokens,     \* classifier: the (key, value) runtime values so far
    hash_texts,         \* digest: the rung texts under digestion
    hash_out,           \* digest: per rung text, its record and byte streams
    index_files,        \* index builder: the list of index files it is given
    idx_pos,            \* index builder: position of `for idx_path in ...`
    snapshot_cache,     \* index builder: revision directory -> snapshot
    families,           \* index builder: footprint -> family
    out,                \* index builder: the dict it returns, with its key order
    current,            \* goodlad: the accumulator of normalize_lad_text
    clean_file,         \* goodlad: the lines written to LADxxx.clean.txt
    _resume_event,      \* ui: the Event the workers wait on while paused
    _stop_requested,    \* ui: the Event set by Stop All
    _restart_current_request,   \* ui: the Event set by Cancel & Restart Current
    _processing_thread, \* ui: the registered worker thread, or None
    _missing_pdf_event, \* ui: the Event of the missing-PDF prompt
    _missing_pdf_action,    \* ui: the answer given in the missing-PDF prompt
    process_btns,       \* ui: state of the two Process buttons
    pause_btn,          \* ui: state of the Pause button
    cancel_dlg,         \* ui: the Cancel / Restart dialog is open
    pdf_dlg,            \* ui: the Missing PDF dialog is open
    after_queue,        \* ui: the callbacks given to after(0, ...), in order
    resume_timers,      \* ui: the resume_after threads still asleep
    imports_ok,         \* ui: whether _lazy_imports finds the three modules
    started,            \* ui: how many worker threads were created
    worker_pc,          \* worker thread -> its position in worker()
    n_items,            \* worker thread -> len(items)
    prog_index,         \* worker thread -> prog_index of its for loop
    proc_pc,            \* worker thread -> position of its proc_thread
    proc_phase,         \* worker thread -> the phase process_rss_file is in
    proc_exception,     \* worker thread -> proc_result["exception"] is set
    run_complete,       \* worker thread -> it logged "Processing run complete"
    stopping,           \* the worker that was running when Stop All was chosen
    user_acted          \* a click was made after that Stop All

vars == <<raw_text, tokens, idx, cur, rungs, rung_texts, ladder,
          left_file, right_file, left_idx, right_idx, include_all_rungs,
          report, output_file, exc, pc,
          tok_i, structural_tokens, parameter_tokens, runtime_tokens,
          hash_texts, hash_out,
          index_files, idx_pos, snapshot_cache, families, out,
          current, clean_file,
          _resume_event, _stop_requested, _restart_current_request,
          _processing_thread, _missing_pdf_event, _missing_pdf_action,
          process_btns, pause_btn, cancel_dlg, pdf_dlg, after_queue,
          resume_timers, imports_ok, started, worker_pc, n_items, prog_index,
          proc_pc, proc_phase, proc_exception, run_complete,
          stopping, user_acted>>

splitVars == <<raw_text, tokens, idx, cur, rungs, rung_texts, ladder>>
cmpVars == <<left_file, right_file, left_idx, right_idx, include_all_rungs,
             report, output_file, exc>>
clsVars == <<tok_i, structural_tokens, parameter_tokens, runtime_tokens>>
hashVars == <<hash_texts, hash_out>>
idxVars == <<index_files, idx_pos, snapshot_cache, families, out>>
goodVars == <<current, clean_file>>
eventVars == <<_resume_event, _stop_requested, _restart_current_request,
               _missing_pdf_event, _missing_pdf_action>>
widgetVars == <<process_btns, pause_btn, cancel_dlg, pdf_dlg>>
workerVars == <<worker_pc, n_items, prog_index, run_complete>>
procVars == <<proc_pc, proc_phase, proc_exception>>
ghostVars == <<stopping, user_acted>>
uiVars == <<eventVars, widgetVars, workerVars, procVars, ghostVars,
            _processing_thread, after_queue, resume_timers, imports_ok, started>>
restVars == <<goodVars, uiVars>>

None == "None"

\* {} as a dict
EmptyDict == [k \in {} |-> None]

\* d.get(k, default)
DictGet(d, k, default) == IF k \in DOMAIN d THEN d[k] ELSE default

\* the variables of the functions that are not running
ClsIdle ==
    /\ tok_i = 0 /\ structural_tokens = <<>>
    /\ parameter_tokens = <<>> /\ runtime_tokens = <<>>

HashIdle == hash_texts = <<>> /\ hash_out = <<>>

IdxIdle ==
    /\ index_files = <<>> /\ idx_pos = 0
    /\ snapshot_cache = EmptyDict /\ families = EmptyDict
    /\ out = [order |-> <<>>, items |-> EmptyDict]

GoodIdle == current = <<>> /\ clean_file = <<>>

\* None, where a thread may stand: threads are numbered from 1
NoThread == 0

\* the variables of the window that is not running
UiIdle ==
    /\ _resume_event = FALSE /\ _stop_requested = FALSE
    /\ _restart_current_request = FALSE
    /\ _processing_thread = NoThread
    /\ _missing_pdf_event = FALSE /\ _missing_pdf_action = None
    /\ process_btns = None /\ pause_btn = None
    /\ cancel_dlg = FALSE /\ pdf_dlg = FALSE
    /\ after_queue = <<>> /\ resume_timers = 0
    /\ imports_ok = FALSE /\ started = 0
    /\ worker_pc = <<>> /\ n_items = <<>> /\ prog_index = <<>>
    /\ proc_pc = <<>> /\ proc_phase = <<>> /\ proc_exception = <<>>
    /\ run_complete = <<>>
    /\ stopping = NoThread /\ user_acted = FALSE

RestIdle == GoodIdle /\ UiIdle

\* ------------------------------------------------------------------ str

Char(s, k) == SubSeq(s, k, k)

\* the characters str.split() with no argument treats as separators
IsSpace(c) == c \in {" ", "\n", "\t", "\r", "\f"}

\* the positions at which a maximal run of non-whitespace characters starts
WordStarts(s) ==
    {k \in 1..Len(s) : ~IsSpace(Char(s, k)) /\ (k = 1 \/ IsSpace(Char(s, k - 1)))}

\* the last position of the run that starts at k
WordEnd(s, k) ==
    CHOOSE e \in k..Len(s) :
        /\ \A j \in k..e : ~IsSpace(Char(s, j))
        /\ e = Len(s) \/ IsSpace(Char(s, e + 1))

\* s.split(): the maximal runs of non-whitespace characters, in order
str_split(s) ==
    LET starts == WordStarts(s)
        nth(n) == CHOOSE k \in starts : Cardinality({j \in starts : j < k}) = n - 1
    IN [n \in 1..Cardinality(starts) |-> SubSeq(s, nth(n), WordEnd(s, nth(n)))]

RECURSIVE str_join(_, _)
\* sep.join(list)
str_join(sep, list) ==
    IF list = <<>> THEN ""
    ELSE IF Len(list) = 1 THEN list[1]
    ELSE list[1] \o sep \o str_join(sep, Tail(list))

\* s.strip() is s without its leading and trailing whitespace; split() drops
\* both anyway, so _tokenize is split() of the stripped text
RECURSIVE str_lstrip(_)
str_lstrip(s) ==
    IF s # "" /\ IsSpace(Char(s, 1)) THEN str_lstrip(SubSeq(s, 2, Len(s))) ELSE s

RECURSIVE str_rstrip(_)
str_rstrip(s) ==
    IF s # "" /\ IsSpace(Char(s, Len(s))) THEN str_rstrip(SubSeq(s, 1, Len(s) - 1)) ELSE s

str_strip(s) == str_rstrip(str_lstrip(s))

_tokenize(rung_text) == str_split(str_strip(rung_text))

\* ------------------------------------------------------------ _split_rungs

NoCur == [open |-> FALSE, toks |-> <<>>]
OpenCur(toks) == [open |-> TRUE, toks |-> toks]

\* a faulty variant: the END test looks at the first token only
IsEndRungFirstToken(toks) == Len(toks) >= 1 /\ toks[1] = "END"

\* len(cur) == 1 and cur[0] == "END"
IsEndRung(toks) == Len(toks) = 1 /\ toks[1] = "END"

\* a faulty variant: a SOR met while an accumulator is open does not restart it
OnSORKeep(st) == IF st.cur.open THEN st ELSE [st EXCEPT !.cur = OpenCur(<<>>)]

\* tok == "SOR": cur = []
OnSOR(st) == [st EXCEPT !.cur = OpenCur(<<>>)]

\* tok == "EOR": append cur unless it is None or the END rung; cur = None
OnEOR(st) ==
    [cur |-> NoCur,
     rungs |-> IF st.cur.open /\ ~IsEndRung(st.cur.toks)
               THEN Append(st.rungs, st.cur.toks)
               ELSE st.rungs]

\* any other token: appended to cur when cur is not None
OnToken(st, tok) ==
    IF st.cur.open
    THEN [st EXCEPT !.cur = OpenCur(Append(st.cur.toks, tok))]
    ELSE st

\* one iteration of `for tok in tokens`
SplitStep(st, tok) ==
    IF tok = "SOR" THEN OnSOR(st)
    ELSE IF tok = "EOR" THEN OnEOR(st)
    ELSE OnToken(st, tok)

RECURSIVE SplitLoop(_, _, _)
SplitLoop(toks, k, st) ==
    IF k > Len(toks) THEN st ELSE SplitLoop(toks, k + 1, SplitStep(st, toks[k]))

\* return [" ".join(r) for r in rungs]
JoinRungs(rs) == [k \in 1..Len(rs) |-> str_join(" ", rs[k])]

_split_rungs(text) ==
    JoinRungs(SplitLoop(str_split(text), 1, [cur |-> NoCur, rungs |-> <<>>]).rungs)

\* ---------------------------------------------------------- _classify_tokens

RECURSIVE StrContains(_, _)
\* c in t, for a one-character c
StrContains(t, c) ==
    IF t = "" THEN FALSE
    ELSE IF Char(t, 1) = c THEN TRUE
    ELSE StrContains(SubSeq(t, 2, Len(t)), c)

\* a faulty variant: a leading "#" is not taken for an address
IsAddrNoHash(t) == StrContains(t, ":") \/ StrContains(t, "/")

_is_addr_token(t) ==
    StrContains(t, ":") \/ StrContains(t, "/") \/ (t # "" /\ Char(t, 1) = "#")

\* a faulty variant: the TON pattern asks for five following tokens
TonMatchesFive(toks, k) == toks[k] = "TON" /\ (k - 1) + 5 < Len(toks)

\* t == "TON" and i + 4 < n, with i counted from 0 (k = i + 1)
TonMatches(toks, k) == toks[k] = "TON" /\ (k - 1) + 4 < Len(toks)

\* a faulty variant: the accumulator is filed with the parameters
ClassifyTonAccumAsParam(toks, k, acc) ==
    [structural |-> acc.structural \o <<"TON", "_", toks[k + 2], "_", "_">>,
     params |-> acc.params \o <<<<"TON_TIMER", toks[k + 1]>>, <<"TON_PRESET", toks[k + 3]>>,
                                <<"TON_ACCUM", toks[k + 4]>>>>,
     runtime |-> acc.runtime]

\* the TON branch: five tokens consumed as one unit
ClassifyTon(toks, k, acc) ==
    [structural |-> acc.structural \o <<"TON", "_", toks[k + 2], "_", "_">>,
     params |-> acc.params \o <<<<"TON_TIMER", toks[k + 1]>>, <<"TON_PRESET", toks[k + 3]>>>>,
     runtime |-> Append(acc.runtime, <<"TON_ACCUM", toks[k + 4]>>)]

\* a faulty variant: an address leaves no placeholder behind
ClassifyDefaultNoPlaceholder(t, acc) ==
    IF _is_addr_token(t)
    THEN [acc EXCEPT !.params = Append(@, <<"GENERIC", t>>)]
    ELSE [acc EXCEPT !.structural = Append(@, t)]

\* the default branch: one token
ClassifyDefault(t, acc) ==
    IF _is_addr_token(t)
    THEN [acc EXCEPT !.params = Append(@, <<"GENERIC", t>>),
                     !.structural = Append(@, "_")]
    ELSE [acc EXCEPT !.structural = Append(@, t)]

RECURSIVE ClassifyFrom(_, _, _)
ClassifyFrom(toks, k, acc) ==
    IF k > Len(toks) THEN acc
    ELSE IF TonMatches(toks, k)
         THEN ClassifyFrom(toks, k + 5, ClassifyTon(toks, k, acc))
         ELSE ClassifyFrom(toks, k + 1, ClassifyDefault(toks[k], acc))

_classify_tokens(toks) ==
    ClassifyFrom(toks, 1, [structural |-> <<>>, params |-> <<>>, runtime |-> <<>>])

\* -------------------------------------------------------------- _hash_tokens

\* the byte b"\0", written "~"; str.split() does not split on it, so a
\* token read from a file may contain it
NUL == "~"

RECURSIVE HashStream(_)
\* what the loop feeds to h.update: each token followed by a null byte
HashStream(toks) ==
    IF toks = <<>> THEN "" ELSE toks[1] \o NUL \o HashStream(Tail(toks))

\* hashlib.sha1(stream).hexdigest()[:8], as an uninterpreted function of the
\* stream: equal streams give equal digests, and distinct streams of the
\* model are taken to give distinct digests
Sha1Hex8(stream) == "sha1(" \o stream \o ")"

_hash_tokens(toks) == Sha1Hex8(HashStream(toks))

\* ------------------------------------------------------ process_ladder_file

Digits == "0123456789"

RECURSIVE Decimal(_)
Decimal(n) ==
    IF n < 10 THEN Char(Digits, n + 1)
    ELSE Decimal(n \div 10) \o Char(Digits, (n % 10) + 1)

RECURSIVE ZeroPad(_, _)
ZeroPad(s, width) == IF Len(s) >= width THEN s ELSE ZeroPad("0" \o s, width)

\* a faulty variant: the rung id is not zero-padded
RungIdUnpadded(n) == Decimal(n)

\* f"{idx:04d}"
RungId(n) == ZeroPad(Decimal(n), 4)

\* [f"{k}={v}" for (k, v) in parameter_tokens]
ParamSig(params) == [k \in 1..Len(params) |-> params[k][1] \o "=" \o params[k][2]]

\* the dict stored under ladder["rungs"][rung_id]
RungRecord(rung_text) ==
    LET toks == _tokenize(rung_text)
        c == _classify_tokens(toks)
    IN [raw |-> rung_text,
        tokens |-> toks,
        structural_tokens |-> c.structural,
        parameter_tokens |-> c.params,
        runtime_tokens |-> c.runtime,
        structural_hash |-> _hash_tokens(c.structural),
        parameter_hash |-> _hash_tokens(ParamSig(c.params))]

RECURSIVE BuildRungs(_, _, _)
\* for idx, rung_text in enumerate(rung_texts): ladder["rungs"][rung_id] = ...
\* (idx counts from 0, texts[k] is rung_texts[k - 1])
BuildRungs(texts, k, acc) ==
    IF k > Len(texts) THEN acc
    ELSE BuildRungs(texts, k + 1,
                    (RungId(k - 1) :> RungRecord(texts[k])) @@ acc)

LadderOf(texts) == [rungs |-> BuildRungs(texts, 1, EmptyDict)]

process_ladder_file(text) == LadderOf(_split_rungs(text))

\* ------------------------------------------------------------- sorted()

\* the characters of the model's keys, in code point order
CodeOrder == "./0123456789ABCDEFGHIJKLMNOPQRSTUVWXYZ_abcdefghijklmnopqrstuvwxyz"

RECURSIVE CodePos(_, _)
CodePos(c, k) ==
    IF k > Len(CodeOrder) THEN 0 ELSE IF Char(CodeOrder, k) = c THEN k ELSE CodePos(c, k + 1)

RECURSIVE StrLess(_, _)
\* a < b for Python strings
StrLess(a, b) ==
    IF b = "" THEN FALSE
    ELSE IF a = "" THEN TRUE
    ELSE IF Char(a, 1) = Char(b, 1)
         THEN StrLess(SubSeq(a, 2, Len(a)), SubSeq(b, 2, Len(b)))
         ELSE CodePos(Char(a, 1), 1) < CodePos(Char(b, 1), 1)

RECURSIVE Sorted(_)
\* sorted(S) for a set of strings
Sorted(S) ==
    IF S = {} THEN <<>>
    ELSE LET m == CHOOSE x \in S : \A y \in S \ {x} : StrLess(x, y)
         IN <<m>> \o Sorted(S \ {m})

\* ------------------------------------------------------- likeaversion.run

RECURSIVE LastDot(_, _)
\* the position of the last "." of name at or before k, 0 when there is none
LastDot(name, k) ==
    IF k = 0 THEN 0 ELSE IF Char(name, k) = "." THEN k ELSE LastDot(name, k - 1)

\* Path(name).stem: the name without its last suffix
Stem(name) ==
    LET d == LastDot(name, Len(name))
    IN IF d <= 1 THEN name ELSE SubSeq(name, 1, d - 1)

RECURSIVE StrRemove(_, _)
\* s.replace(sub, "")
StrRemove(s, sub) ==
    IF Len(s) < Len(sub) THEN s
    ELSE IF SubSeq(s, 1, Len(sub)) = sub
         THEN StrRemove(SubSeq(s, Len(sub) + 1, Len(s)), sub)
         ELSE Char(s, 1) \o StrRemove(SubSeq(s, 2, Len(s)), sub)

\* ladder_name = lad_file.stem.replace(".raw", "")
LadderNameOf(file_name) == StrRemove(Stem(file_name), ".raw")

RECURSIVE BuildLadders(_, _, _, _)
\* for lad_file in ladder_files: out["ladders"][ladder_name] = ...
BuildLadders(names, k, files, acc) ==
    IF k > Len(names) THEN acc
    ELSE BuildLadders(names, k + 1, files,
                      (LadderNameOf(names[k]) :> process_ladder_file(files[names[k]])) @@ acc)

\* the document `out` that run writes for one revision directory, whose
\* ladder files are given as a dict file name -> text
BuildDocument(location, revision, files) ==
    [location |-> location,
     revision |-> revision,
     ladders |-> BuildLadders(Sorted(DOMAIN files), 1, files, EmptyDict)]

\* ------------------------------------------------ likeaversion_compare.py

\* the content of a path: no file, a file that is not JSON, a JSON document
NoFile == [kind |-> "missing"]
BadFile == [kind |-> "malformed"]
JsonFile(doc) == [kind |-> "json", doc |-> doc]

\* what a call gives back: the exception it raised, or its value
Raise(e) == [exc |-> e, value |-> EmptyDict]
Return(v) == [exc |-> None, value |-> v]

\* load_index: open() raises on a missing file, json.load on a malformed one
load_index(file) ==
    IF file.kind = "missing" THEN Raise("FileNotFoundError")
    ELSE IF file.kind = "malformed" THEN Raise("JSONDecodeError")
    ELSE Return(file.doc)

\* name.endswith(".clean.txt") and name[:-10]
normalize_ladder_name(name) ==
    IF Len(name) >= 10 /\ SubSeq(name, Len(name) - 9, Len(name)) = ".clean.txt"
    THEN SubSeq(name, 1, Len(name) - 10)
    ELSE name

\* a faulty variant: d.get(k) in place of d[k]
SubscriptGet(d, k) == Return(DictGet(d, k, None))

\* d[k]: a KeyError when d has no key k
Subscript(d, k) == IF k \in DOMAIN d THEN Return(d[k]) ELSE Raise("KeyError")

\* the keys the report header reads with []
HeaderKeys == {"location", "revision", "path"}

\* report["left"] or report["right"]: lines 31-37 and 38-44
HeaderOf(d, index_path) ==
    LET loc == Subscript(d, "location")
        rev == Subscript(d, "revision")
        path == Subscript(d, "path")
    IN IF loc.exc # None THEN loc
       ELSE IF rev.exc # None THEN rev
       ELSE IF path.exc # None THEN path
       ELSE Return([location |-> loc.value,
                    revision |-> rev.value,
                    path |-> path.value,
                    program_id |-> loc.value \o "/" \o rev.value,
                    likeaversion_index |-> index_path])

\* a faulty variant: the parameter hashes are compared first
LadderStatusParamFirst(hasL, hasR, l, r) ==
    IF ~hasL THEN "missing_left"
    ELSE IF ~hasR THEN "missing_right"
    ELSE IF DictGet(l, "ladder_parameter_hash", None)
              # DictGet(r, "ladder_parameter_hash", None)
         THEN "parameter_difference"
    ELSE IF DictGet(l, "ladder_structural_hash", None)
              # DictGet(r, "ladder_structural_hash", None)
         THEN "logic_difference"
    ELSE "identical"

\* lines 75-90: the ladder-level status
LadderStatus(hasL, hasR, l, r) ==
    IF ~hasL THEN "missing_left"
    ELSE IF ~hasR THEN "missing_right"
    ELSE IF DictGet(l, "ladder_structural_hash", None)
              # DictGet(r, "ladder_structural_hash", None)
         THEN "logic_difference"
    ELSE IF DictGet(l, "ladder_parameter_hash", None)
              # DictGet(r, "ladder_parameter_hash", None)
         THEN "parameter_difference"
    ELSE "identical"

\* a faulty variant: the drilldown ignores include_all_rungs
DrilldownOnDifference(all, status) == status # "identical"

\* line 95: whether the rung drilldown is computed
DrilldownWanted(all, status) == all \/ status # "identical"

\* a faulty variant: a rung's parameter hashes are not compared
RungEntryStructOnly(rung_id, lr, rr) ==
    LET sdiff == DictGet(lr, "structural_hash", None) # DictGet(rr, "structural_hash", None)
    IN [rung |-> rung_id,
        status |-> IF sdiff THEN "different" ELSE "identical",
        structural |-> IF sdiff THEN "different" ELSE "same",
        parameters |-> "same",
        left_structural_hash |-> DictGet(lr, "structural_hash", None),
        right_structural_hash |-> DictGet(rr, "structural_hash", None),
        left_parameter_hash |-> DictGet(lr, "parameter_hash", None),
        right_parameter_hash |-> DictGet(rr, "parameter_hash", None),
        left_tokens |-> DictGet(lr, "tokens", <<>>),
        right_tokens |-> DictGet(rr, "tokens", <<>>)]

\* lines 111-130: the entry of a rung present on both sides
RungEntry(rung_id, lr, rr) ==
    LET sdiff == DictGet(lr, "structural_hash", None) # DictGet(rr, "structural_hash", None)
        pdiff == DictGet(lr, "parameter_hash", None) # DictGet(rr, "parameter_hash", None)
    IN [rung |-> rung_id,
        status |-> IF sdiff \/ pdiff THEN "different" ELSE "identical",
        structural |-> IF sdiff THEN "different" ELSE "same",
        parameters |-> IF pdiff THEN "different" ELSE "same",
        left_structural_hash |-> DictGet(lr, "structural_hash", None),
        right_structural_hash |-> DictGet(rr, "structural_hash", None),
        left_parameter_hash |-> DictGet(lr, "parameter_hash", None),
        right_parameter_hash |-> DictGet(rr, "parameter_hash", None),
        left_tokens |-> DictGet(lr, "tokens", <<>>),
        right_tokens |-> DictGet(rr, "tokens", <<>>)]

\* line 133: whether a rung entry of a rung present on both sides is kept
RungKept(all, rung_status) == all \/ rung_status # "identical"

\* lines 96-134: entry["rungs"] after the drilldown loop
Drilldown(l, r, all) ==
    LET left_rungs == DictGet(l, "rungs", EmptyDict)
        right_rungs == DictGet(r, "rungs", EmptyDict)
        all_rungs == DOMAIN left_rungs \cup DOMAIN right_rungs
        e(id) == IF id \notin DOMAIN left_rungs
                 THEN [rung |-> id, status |-> "missing_left"]
                 ELSE IF id \notin DOMAIN right_rungs
                 THEN [rung |-> id, status |-> "missing_right"]
                 ELSE RungEntry(id, left_rungs[id], right_rungs[id])
    IN [id \in {x \in all_rungs :
                    \/ x \notin DOMAIN left_rungs
                    \/ x \notin DOMAIN right_rungs
                    \/ RungKept(all, e(x).status)} |-> e(id)]

\* lines 57-134: the entry of one ladder key
LadderEntry(ladder_file, left_ladders, right_ladders, all) ==
    LET hasL == ladder_file \in DOMAIN left_ladders
        hasR == ladder_file \in DOMAIN right_ladders
        l == IF hasL THEN left_ladders[ladder_file] ELSE EmptyDict
        r == IF hasR THEN right_ladders[ladder_file] ELSE EmptyDict
        status == LadderStatus(hasL, hasR, l, r)
        both == hasL /\ hasR
    IN [ladder_id |-> normalize_ladder_name(ladder_file),
        file |-> ladder_file,
        status |-> status,
        structural |-> IF status = "logic_difference" THEN "different" ELSE "same",
        parameters |-> IF status = "parameter_difference" THEN "different" ELSE "same",
        left_ladder_struct_hash |->
            IF both THEN DictGet(l, "ladder_structural_hash", None) ELSE None,
        right_ladder_struct_hash |->
            IF both THEN DictGet(r, "ladder_structural_hash", None) ELSE None,
        left_ladder_param_hash |->
            IF both THEN DictGet(l, "ladder_parameter_hash", None) ELSE None,
        right_ladder_param_hash |->
            IF both THEN DictGet(r, "ladder_parameter_hash", None) ELSE None,
        rungs |-> IF DrilldownWanted(all, status) THEN Drilldown(l, r, all) ELSE EmptyDict]

\* line 140: report["ladders"][ladder_id] = entry
StoreEntry(ladders, entry) == (entry.ladder_id :> entry) @@ ladders

\* lines 136-138: the summary after one ladder entry
CountEntry(summary, entry) ==
    IF entry.status # "identical"
    THEN [status |-> "FAIL", ladder_differences |-> summary.ladder_differences + 1]
    ELSE summary

RECURSIVE CompareLoop(_, _, _, _, _, _)
\* for ladder_file in all_ladders
CompareLoop(keys, k, left_ladders, right_ladders, all, rep) ==
    IF k > Len(keys) THEN rep
    ELSE LET entry == LadderEntry(keys[k], left_ladders, right_ladders, all)
         IN CompareLoop(keys, k + 1, left_ladders, right_ladders, all,
                        [rep EXCEPT !.summary = CountEntry(@, entry),
                                    !.ladders = StoreEntry(@, entry)])

LeftPath == "left/likeaversion.json"
RightPath == "right/likeaversion.json"

compare_revisions(l_idx, r_idx, all) ==
    LET lh == HeaderOf(l_idx, LeftPath)
        rh == HeaderOf(r_idx, RightPath)
        left_ladders == DictGet(l_idx, "ladders", EmptyDict)
        right_ladders == DictGet(r_idx, "ladders", EmptyDict)
        all_ladders == Sorted(DOMAIN left_ladders \cup DOMAIN right_ladders)
    IN IF lh.exc # None THEN lh
       ELSE IF rh.exc # None THEN rh
       ELSE Return(CompareLoop(all_ladders, 1, left_ladders, right_ladders, all,
                               [left |-> lh.value,
                                right |-> rh.value,
                                summary |-> [status |-> "PASS", ladder_differences |-> 0],
                                ladders |-> EmptyDict]))

\* ================================================================ goodlad.py

\* rung_text = " ".join(current).strip()
RungText(toks) == str_strip(str_join(" ", toks))

\* a faulty variant: the END test looks at the start of the joined text only
IsEndTextPrefix(toks) ==
    Len(RungText(toks)) >= 3 /\ SubSeq(RungText(toks), 1, 3) = "END"

\* rung_text != "END" fails: the rung is the END rung
IsEndText(toks) == RungText(toks) = "END"

\* a faulty variant: a SOR does not empty the accumulator
GoodOnSORKeep(st) == st

\* token == "SOR": current = []
GoodOnSOR(st) == [st EXCEPT !.current = <<>>]

\* token == "EOR": a non-empty current is appended unless its text is END;
\* current = []
GoodOnEOR(st) ==
    [current |-> <<>>,
     rungs |-> IF st.current # <<>> /\ ~IsEndText(st.current)
               THEN Append(st.rungs, RungText(st.current))
               ELSE st.rungs]

\* any other token: current.append(token); current is a list from the start
GoodOnToken(st, tok) == [st EXCEPT !.current = Append(@, tok)]

GoodStep(st, tok) ==
    IF tok = "SOR" THEN GoodOnSOR(st)
    ELSE IF tok = "EOR" THEN GoodOnEOR(st)
    ELSE GoodOnToken(st, tok)

RECURSIVE GoodLoop(_, _, _)
GoodLoop(toks, k, st) ==
    IF k > Len(toks) THEN st ELSE GoodLoop(toks, k + 1, GoodStep(st, toks[k]))

normalize_lad_text(text) ==
    GoodLoop(str_split(text), 1, [current |-> <<>>, rungs |-> <<>>]).rungs

\* f"{idx:04d} | {rung}\n", without the line end
CleanLine(n, rung) == ZeroPad(Decimal(n), 4) \o " | " \o rung

\* the lines process_lad_file writes for the rungs it was returned
CleanLines(rs) == [k \in 1..Len(rs) |-> CleanLine(k - 1, rs[k])]

\* ============================================================ inputs: texts

\* the tokens the splitter's texts are drawn from
SplitVocab == {"SOR", "EOR", "END", "A", "B"}

\* the longest enumerated text, in tokens
MaxTokens == 6

\* how many rungs the long example text holds
LongRungs == 11

RECURSIVE Repeat(_, _)
Repeat(s, n) == IF n = 0 THEN "" ELSE s \o Repeat(s, n - 1)

\* the texts of the END-filtering examples, a text with irregular whitespace,
\* one with more than ten rungs, and an unbalanced one
ExampleEnd == "SOR END EOR"
ExampleThree == "SOR A B EOR SOR END EOR SOR C EOR"
ExampleSpaces == "  SOR XIC  I:1/0\n OTE\tO:2/0 EOR\nSOR END EOR\n"
ExampleLong == Repeat("SOR A EOR ", LongRungs)
ExampleUnbalanced == "X EOR SOR A SOR B EOR END EOR SOR END EOR SOR C"

ExampleTexts == {ExampleEnd, ExampleThree, ExampleSpaces, ExampleLong, ExampleUnbalanced}

TokenSeqs(vocab, n) == UNION {[1..m -> vocab] : m \in 0..n}

SplitTexts ==
    {str_join(" ", toks) : toks \in TokenSeqs(SplitVocab, MaxTokens)} \cup ExampleTexts

\* ==================================================== the splitter, stepwise

CmpIdle ==
    /\ left_file = NoFile /\ right_file = NoFile
    /\ left_idx = EmptyDict /\ right_idx = EmptyDict
    /\ include_all_rungs = FALSE
    /\ report = EmptyDict /\ output_file = NoFile
    /\ exc = None

InitSplit ==
    /\ raw_text \in SplitTexts
    /\ tokens = <<>> /\ idx = 0 /\ cur = NoCur /\ rungs = <<>>
    /\ rung_texts = <<>> /\ ladder = None
    /\ pc = "read"
    /\ CmpIdle /\ ClsIdle /\ HashIdle /\ IdxIdle /\ RestIdle

\* tokens = raw_text.split(); rungs = []; cur = None
SplitBegin ==
    /\ pc = "read"
    /\ tokens' = str_split(raw_text)
    /\ idx' = 1 /\ cur' = NoCur /\ rungs' = <<>>
    /\ pc' = "loop"
    /\ UNCHANGED <<raw_text, rung_texts, ladder>>
    /\ UNCHANGED cmpVars
    /\ UNCHANGED <<clsVars, hashVars, idxVars, restVars>>

LoopStep(st) ==
    /\ cur' = st.cur /\ rungs' = st.rungs
    /\ idx' = idx + 1
    /\ UNCHANGED <<raw_text, tokens, rung_texts, ladder, pc>>
    /\ UNCHANGED cmpVars
    /\ UNCHANGED <<clsVars, hashVars, idxVars, restVars>>

SplitSOR ==
    /\ pc = "loop" /\ idx <= Len(tokens) /\ tokens[idx] = "SOR"
    /\ LoopStep(OnSOR([cur |-> cur, rungs |-> rungs]))

SplitEOR ==
    /\ pc = "loop" /\ idx <= Len(tokens) /\ tokens[idx] = "EOR"
    /\ LoopStep(OnEOR([cur |-> cur, rungs |-> rungs]))

SplitOther ==
    /\ pc = "loop" /\ idx <= Len(tokens) /\ tokens[idx] \notin {"SOR", "EOR"}
    /\ LoopStep(OnToken([cur |-> cur, rungs |-> rungs], tokens[idx]))

\* return [" ".join(r) for r in rungs]
SplitReturn ==
    /\ pc = "loop" /\ idx > Len(tokens)
    /\ rung_texts' = JoinRungs(rungs)
    /\ pc' = "split_done"
    /\ UNCHANGED <<raw_text, tokens, idx, cur, rungs, ladder>>
    /\ UNCHANGED cmpVars
    /\ UNCHANGED <<clsVars, hashVars, idxVars, restVars>>

\* process_ladder_file, after its call of _split_rungs
ProcessLadder ==
    /\ pc = "split_done"
    /\ ladder' = LadderOf(rung_texts)
    /\ pc' = "done"
    /\ UNCHANGED <<raw_text, tokens, idx, cur, rungs, rung_texts>>
    /\ UNCHANGED cmpVars
    /\ UNCHANGED <<clsVars, hashVars, idxVars, restVars>>

NextSplit ==
    \/ SplitBegin
    \/ SplitSOR
    \/ SplitEOR
    \/ SplitOther
    \/ SplitReturn
    \/ ProcessLadder

SpecSplit == InitSplit /\ [][NextSplit]_vars

\* ============================================= goodlad.process_lad_file, stepwise

InitClean ==
    /\ raw_text \in SplitTexts
    /\ tokens = <<>> /\ idx = 0 /\ cur = NoCur /\ rungs = <<>>
    /\ rung_texts = <<>> /\ ladder = None
    /\ current = <<>> /\ clean_file = <<>>
    /\ pc = "clean_read"
    /\ CmpIdle /\ ClsIdle /\ HashIdle /\ IdxIdle /\ UiIdle

CleanRest == UNCHANGED <<cur, ladder, cmpVars, clsVars, hashVars, idxVars, uiVars>>

\* text = raw_path.read_text(...); rungs = []; current = [];
\* tokens = raw_text.split()
CleanBegin ==
    /\ pc = "clean_read"
    /\ tokens' = str_split(raw_text)
    /\ idx' = 1 /\ current' = <<>> /\ rungs' = <<>>
    /\ pc' = "clean_loop"
    /\ UNCHANGED <<raw_text, rung_texts, clean_file>>
    /\ CleanRest

CleanLoopStep(st) ==
    /\ current' = st.current /\ rungs' = st.rungs
    /\ idx' = idx + 1
    /\ UNCHANGED <<raw_text, tokens, rung_texts, clean_file, pc>>
    /\ CleanRest

CleanSOR ==
    /\ pc = "clean_loop" /\ idx <= Len(tokens) /\ tokens[idx] = "SOR"
    /\ CleanLoopStep(GoodOnSOR([current |-> current, rungs |-> rungs]))

CleanEOR ==
    /\ pc = "clean_loop" /\ idx <= Len(tokens) /\ tokens[idx] = "EOR"
    /\ CleanLoopStep(GoodOnEOR([current |-> current, rungs |-> rungs]))

CleanOther ==
    /\ pc = "clean_loop" /\ idx <= Len(tokens) /\ tokens[idx] \notin {"SOR", "EOR"}
    /\ CleanLoopStep(GoodOnToken([current |-> current, rungs |-> rungs], tokens[idx]))

\* return rungs
CleanReturn ==
    /\ pc = "clean_loop" /\ idx > Len(tokens)
    /\ rung_texts' = rungs
    /\ pc' = "normalized"
    /\ UNCHANGED <<raw_text, tokens, idx, current, rungs, clean_file>>
    /\ CleanRest

\* process_lad_file, after its call of normalize_lad_text
CleanWrite ==
    /\ pc = "normalized"
    /\ clean_file' = CleanLines(rung_texts)
    /\ pc' = "clean_written"
    /\ UNCHANGED <<raw_text, tokens, idx, current, rungs, rung_texts>>
    /\ CleanRest

NextClean ==
    \/ CleanBegin
    \/ CleanSOR
    \/ CleanEOR
    \/ CleanOther
    \/ CleanReturn
    \/ CleanWrite

SpecClean == InitClean /\ [][NextClean]_vars

\* ========================================================= inputs: documents

\* the rungs the ladder texts of the comparator's documents are made of: a
\* contact rung, the same with another instruction, and a timer rung with
\* two accumulator values
RungVocab ==
    {"XIC I:1/0 OTE O:2/0", "XIO I:1/0 OTE O:2/0",
     "TON T4:0 1.0 30 0", "TON T4:0 1.0 30 5"}

\* the most rungs of an enumerated ladder text
MaxRungs == 2

RECURSIVE LadderText(_)
\* the dump of a ladder: each rung between SOR and EOR, then the END rung
LadderText(rs) ==
    IF rs = <<>> THEN "SOR END EOR"
    ELSE "SOR " \o rs[1] \o " EOR " \o LadderText(Tail(rs))

LadderTexts == {LadderText(rs) : rs \in TokenSeqs(RungVocab, MaxRungs)}

\* the ladder files of a revision directory: LAD2 with any of the texts,
\* alone or beside a one-rung LAD3
RevisionDirs ==
    {[f \in {"LAD2.raw.txt"} |-> t] : t \in LadderTexts}
    \cup {[f \in {"LAD2.raw.txt", "LAD3.raw.txt"} |->
                IF f = "LAD2.raw.txt" THEN t ELSE "SOR XIC I:1/0 OTE O:2/0 EOR SOR END EOR"]
            : t \in LadderTexts}

\* the documents likeaversion.run writes for these directories
BuilderDocs == {BuildDocument("SiteA", "rev1", files) : files \in RevisionDirs}

\* a document with the "path" key the comparator reads
WithPath(d) == [k \in DOMAIN d \cup {"path"} |-> IF k = "path" THEN "SiteA/rev1" ELSE d[k]]

IndexFiles ==
    {NoFile, BadFile} \cup {JsonFile(d) : d \in BuilderDocs}
        \cup {JsonFile(WithPath(d)) : d \in BuilderDocs}

SplitIdle ==
    /\ raw_text = "" /\ tokens = <<>> /\ idx = 0 /\ cur = NoCur /\ rungs = <<>>
    /\ rung_texts = <<>> /\ ladder = None

\* ============================================ likeaversion_compare.run

InitRun ==
    /\ left_file \in IndexFiles
    /\ right_file \in IndexFiles
    /\ left_idx = EmptyDict /\ right_idx = EmptyDict
    /\ include_all_rungs = FALSE
    /\ report = EmptyDict
    /\ output_file = NoFile
    /\ exc = None
    /\ pc = "run"
    /\ SplitIdle /\ ClsIdle /\ HashIdle /\ IdxIdle /\ RestIdle

\* left_idx = load_index(left_index_path)
RunLoadLeft ==
    /\ pc = "run"
    /\ LET res == load_index(left_file)
       IN /\ exc' = res.exc
          /\ left_idx' = res.value
          /\ pc' = IF res.exc = None THEN "left_loaded" ELSE "raised"
    /\ UNCHANGED <<left_file, right_file, right_idx, include_all_rungs, report, output_file>>
    /\ UNCHANGED splitVars
    /\ UNCHANGED <<clsVars, hashVars, idxVars, restVars>>

\* right_idx = load_index(right_index_path)
RunLoadRight ==
    /\ pc = "left_loaded"
    /\ LET res == load_index(right_file)
       IN /\ exc' = res.exc
          /\ right_idx' = res.value
          /\ pc' = IF res.exc = None THEN "right_loaded" ELSE "raised"
    /\ UNCHANGED <<left_file, right_file, left_idx, include_all_rungs, report, output_file>>
    /\ UNCHANGED splitVars
    /\ UNCHANGED <<clsVars, hashVars, idxVars, restVars>>

\* report = compare_revisions(left_idx, right_idx, ...), include_all_rungs
\* left at its default
RunCompare ==
    /\ pc = "right_loaded"
    /\ LET res == compare_revisions(left_idx, right_idx, FALSE)
       IN /\ exc' = res.exc
          /\ report' = res.value
          /\ pc' = IF res.exc = None THEN "compared" ELSE "raised"
    /\ UNCHANGED <<left_file, right_file, left_idx, right_idx, include_all_rungs, output_file>>
    /\ UNCHANGED splitVars
    /\ UNCHANGED <<clsVars, hashVars, idxVars, restVars>>

\* with open(output_path, "w") as f: json.dump(report, f); return report
RunWrite ==
    /\ pc = "compared"
    /\ output_file' = JsonFile(report)
    /\ pc' = "returned"
    /\ UNCHANGED <<left_file, right_file, left_idx, right_idx, include_all_rungs, report, exc>>
    /\ UNCHANGED splitVars
    /\ UNCHANGED <<clsVars, hashVars, idxVars, restVars>>

NextRun ==
    \/ RunLoadLeft
    \/ RunLoadRight
    \/ RunCompare
    \/ RunWrite

SpecRun == InitRun /\ [][NextRun]_vars

\* ================================== compare_revisions, called on two documents

\* the ladder keys of the compared documents
LadderKeys == {"LAD2", "LAD2.clean.txt", "LAD3"}

\* the most ladders the two documents hold together
MaxLadders == 3

\* a ladder with the ladder-level hashes the comparator reads
WithRollup(lad, s, p) ==
    [k \in DOMAIN lad \cup {"ladder_structural_hash", "ladder_parameter_hash"} |->
        IF k = "ladder_structural_hash" THEN s
        ELSE IF k = "ladder_parameter_hash" THEN p
        ELSE lad[k]]

BaseText == "SOR XIC I:1/0 OTE O:2/0 EOR SOR TON T4:0 1.0 30 0 EOR SOR END EOR"

\* the ladders of the compared documents: as the builder writes them (one
\* rung; two rungs; a parameter changed; an instruction changed), and the
\* two-rung ladder with ladder-level hashes added
CmpLadders ==
    {process_ladder_file(t) : t \in
        {"SOR XIC I:1/0 OTE O:2/0 EOR SOR END EOR",
         BaseText,
         "SOR XIC I:1/1 OTE O:2/0 EOR SOR TON T4:0 1.0 30 0 EOR SOR END EOR",
         "SOR XIO I:1/0 OTE O:2/0 EOR SOR TON T4:0 1.0 30 0 EOR SOR END EOR"}}
    \cup {WithRollup(process_ladder_file(BaseText), h[1], h[2]) : h \in
            {<<"5a1e0001", "9b2f0001">>, <<"5a1e0002", "9b2f0001">>,
             <<"5a1e0001", "9b2f0002">>}}

Slots == {"L", "R"} \X LadderKeys

\* the ladders dict of one side, from an assignment of ladders to slots
SideLadders(side, f) == [k \in {x \in LadderKeys : <<side, x>> \in DOMAIN f} |-> f[<<side, k>>]]

CmpDoc(revision, ladders) ==
    [location |-> "SiteA", revision |-> revision, path |-> "SiteA/" \o revision,
     ladders |-> ladders]

InitCompare ==
    /\ \E S \in {T \in SUBSET Slots : Cardinality(T) <= MaxLadders} :
         \E f \in [S -> CmpLadders] :
            /\ left_idx = CmpDoc("rev1", SideLadders("L", f))
            /\ right_idx = CmpDoc("rev2", SideLadders("R", f))
    /\ left_file = NoFile /\ right_file = NoFile
    /\ include_all_rungs = FALSE
    /\ report = EmptyDict
    /\ output_file = NoFile
    /\ exc = None
    /\ pc = "call"
    /\ SplitIdle /\ ClsIdle /\ HashIdle /\ IdxIdle /\ RestIdle

\* compare_revisions(left_idx, right_idx, ..., include_all_rungs=all)
CallCompare(all) ==
    /\ pc = "call"
    /\ include_all_rungs' = all
    /\ LET res == compare_revisions(left_idx, right_idx, all)
       IN /\ exc' = res.exc
          /\ report' = res.value
          /\ pc' = IF res.exc = None THEN "compared" ELSE "raised"
    /\ UNCHANGED <<left_file, right_file, left_idx, right_idx, output_file>>
    /\ UNCHANGED splitVars
    /\ UNCHANGED <<clsVars, hashVars, idxVars, restVars>>

NextCompare == \E all \in BOOLEAN : CallCompare(all)

SpecCompare == InitCompare /\ [][NextCompare]_vars

\* ============================================== _classify_tokens, stepwise

\* a timer mnemonic, an address of each of the three kinds, a plain mnemonic
ClsVocab == {"TON", "T4:0", "B3/1", "#N7", "XIC"}

\* the longest token list given to the classifier
MaxClsTokens == 6

InitClassify ==
    /\ tokens \in TokenSeqs(ClsVocab, MaxClsTokens)
    /\ tok_i = 0
    /\ structural_tokens = <<>> /\ parameter_tokens = <<>> /\ runtime_tokens = <<>>
    /\ pc = "classify"
    /\ raw_text = "" /\ idx = 0 /\ cur = NoCur /\ rungs = <<>>
    /\ rung_texts = <<>> /\ ladder = None
    /\ CmpIdle /\ HashIdle /\ IdxIdle /\ RestIdle

\* the three lists of the classifier, as the record its branches extend
ClsAcc ==
    [structural |-> structural_tokens,
     params |-> parameter_tokens,
     runtime |-> runtime_tokens]

ClsStore(acc, consumed) ==
    /\ structural_tokens' = acc.structural
    /\ parameter_tokens' = acc.params
    /\ runtime_tokens' = acc.runtime
    /\ tok_i' = tok_i + consumed

ClsRest ==
    UNCHANGED <<raw_text, tokens, idx, cur, rungs, rung_texts, ladder,
                left_file, right_file, left_idx, right_idx, include_all_rungs,
                report, output_file, hashVars, idxVars, restVars>>

\* the TON branch: tokens[i + 1] .. tokens[i + 4] are read, an IndexError
\* when one of them is past the end, then i += 5; continue
ClassifyTonStep ==
    /\ pc = "classify" /\ tok_i < Len(tokens)
    /\ TonMatches(tokens, tok_i + 1)
    /\ IF tok_i + 4 < Len(tokens)
       THEN /\ ClsStore(ClassifyTon(tokens, tok_i + 1, ClsAcc), 5)
            /\ UNCHANGED <<exc, pc>>
       ELSE /\ exc' = "IndexError" /\ pc' = "raised"
            /\ UNCHANGED clsVars
    /\ ClsRest

\* the default branch, then i += 1
ClassifyDefaultStep ==
    /\ pc = "classify" /\ tok_i < Len(tokens)
    /\ ~TonMatches(tokens, tok_i + 1)
    /\ ClsStore(ClassifyDefault(tokens[tok_i + 1], ClsAcc), 1)
    /\ UNCHANGED <<exc, pc>>
    /\ ClsRest

\* while i < n is over: return structural_tokens, parameter_tokens, runtime_tokens
ClassifyReturn ==
    /\ pc = "classify" /\ tok_i >= Len(tokens)
    /\ pc' = "classified"
    /\ UNCHANGED <<exc, clsVars>>
    /\ ClsRest

NextClassify ==
    \/ ClassifyTonStep
    \/ ClassifyDefaultStep
    \/ ClassifyReturn

SpecClassify == InitClassify /\ [][NextClassify]_vars

\* ================================ process_ladder_file: the digests of a rung

\* tokens that concatenate alike ("AB" "C" and "A" "BC"), a token that holds
\* a null byte, two addresses, and the token that is the placeholder's text
HashVocab == {"A", "BC", "AB", "C", "A~BC", "#1", "#2", "_"}

\* the most tokens of a digested rung text
MaxHashTokens == 2

HashTexts == {str_join(" ", toks) : toks \in TokenSeqs(HashVocab, MaxHashTokens)}

InitDigest ==
    /\ hash_texts \in HashTexts \X HashTexts
    /\ hash_out = <<>>
    /\ pc = "digest"
    /\ SplitIdle /\ CmpIdle /\ ClsIdle /\ IdxIdle /\ RestIdle

\* lines 127-138 for the next rung text: its record, and with it the byte
\* streams the two _hash_tokens calls feed to the digest
DigestRung ==
    /\ pc = "digest"
    /\ LET rec == RungRecord(hash_texts[Len(hash_out) + 1])
       IN hash_out' = Append(hash_out,
                [record |-> rec,
                 structural_stream |-> HashStream(rec.structural_tokens),
                 param_sig |-> ParamSig(rec.parameter_tokens),
                 parameter_stream |-> HashStream(ParamSig(rec.parameter_tokens))])
    /\ pc' = IF Len(hash_out) + 1 = Len(hash_texts) THEN "digested" ELSE "digest"
    /\ UNCHANGED <<hash_texts, splitVars, cmpVars, clsVars, idxVars, restVars>>

NextDigest == DigestRung

SpecDigest == InitDigest /\ [][NextDigest]_vars

\* ============================================================ rung_index.py

\* None, where a dict may stand (a snapshot, an example payload)
Nothing == [none |-> TRUE]

\* None, where a count may stand (no count is negative)
NoCount == -1

\* a JSON array, kept apart from a JSON object by its single field
JsonList(xs) == [list |-> xs]

\* whether a JSON value is an object, that is has .get and .items
IsMapping(v) == "list" \notin DOMAIN v

\* a file that exists and cannot be opened
Unreadable == [kind |-> "unreadable"]

\* load_json: open() raises on a missing or unreadable file, json.load on a
\* malformed one
load_json(file) ==
    IF file.kind = "missing" THEN Raise("FileNotFoundError")
    ELSE IF file.kind = "unreadable" THEN Raise("PermissionError")
    ELSE IF file.kind = "malformed" THEN Raise("JSONDecodeError")
    ELSE Return(file.doc)

\* len(x) of a JSON value: a TypeError unless it is an array
JsonLen(v) == IF IsMapping(v) THEN Raise("TypeError") ELSE Return(Len(v.list))

\* a faulty variant: a snapshot that cannot be read counts as an empty one
ReadSnapshotAsEmpty(file, snapshot_path) ==
    [ladders |-> 0, data_files |-> 0, processor |-> None,
     snapshot_path |-> snapshot_path]

\* None when the path does not exist and when anything in the try block
\* raises; otherwise the lengths of the two lists (a missing key is an
\* empty list) and the processor
_read_program_snapshot(file, snapshot_path) ==
    IF file.kind = "missing" THEN Nothing
    ELSE LET loaded == load_json(file)
         IN IF loaded.exc # None THEN Nothing
            ELSE IF ~IsMapping(loaded.value) THEN Nothing
            ELSE LET snap == loaded.value
                     program_files == JsonLen(DictGet(snap, "program_files", JsonList(<<>>)))
                     data_files == JsonLen(DictGet(snap, "data_files", JsonList(<<>>)))
                     identity == DictGet(snap, "identity", EmptyDict)
                 IN IF program_files.exc # None \/ data_files.exc # None
                            \/ ~IsMapping(identity)
                    THEN Nothing
                    ELSE [ladders |-> program_files.value,
                          data_files |-> data_files.value,
                          processor |-> DictGet(identity, "processor", None),
                          snapshot_path |-> snapshot_path]

\* the value of a decimal digit
DigitVal(c) == (CHOOSE d \in 1..10 : Char(Digits, d) = c) - 1

IsDigits(s) ==
    s # "" /\ \A k \in 1..Len(s) : \E d \in 1..10 : Char(Digits, d) = Char(s, k)

RECURSIVE IntOfDigits(_)
IntOfDigits(s) ==
    IF Len(s) = 1 THEN DigitVal(s)
    ELSE 10 * IntOfDigits(SubSeq(s, 1, Len(s) - 1)) + DigitVal(Char(s, Len(s)))

\* int(str(rung_id).strip()), None when int() raises: an optional sign and
\* decimal digits
_parse_rung_no(rung_id) ==
    LET s == str_strip(rung_id)
        signed == s # "" /\ Char(s, 1) \in {"+", "-"}
        body == IF signed THEN SubSeq(s, 2, Len(s)) ELSE s
    IN IF IsDigits(body)
       THEN [none |-> FALSE,
             value |-> IF signed /\ Char(s, 1) = "-"
                       THEN 0 - IntOfDigits(body) ELSE IntOfDigits(body)]
       ELSE [none |-> TRUE, value |-> 0]

\* rung_no = _parse_rung_no(rung_id); if rung_no is None: rung_no = -1
RungNo(rung_id) ==
    LET r == _parse_rung_no(rung_id) IN IF r.none THEN 0 - 1 ELSE r.value

\* d[k] = v
DictPut(d, k, v) == (k :> v) @@ d

\* the factories of the nested defaultdicts
NewParam == [programs |-> {}, example |-> Nothing]
NewRungRev == [programs |-> {}, parameters |-> EmptyDict]
NewRung == [revisions |-> EmptyDict]
NewLadRev == [programs |-> {}, rungs |-> EmptyDict]
NewLadder == [revisions |-> EmptyDict]

NewFamily(ladders_count, data_files_count) ==
    [footprint |-> [ladders |-> ladders_count, data_files |-> data_files_count],
     programs |-> {},
     program_stats |-> EmptyDict,
     ladders |-> EmptyDict]

\* a faulty variant: families are keyed by the ladder count alone
FamilyKeyLaddersOnly(ladders_count, data_files_count) ==
    <<ladders_count, ladders_count>>

\* key = (ladders_count, data_files_count)
FamilyKey(ladders_count, data_files_count) == <<ladders_count, data_files_count>>

\* get_family: the dict of families with the family of this footprint in it
get_family(fams, ladders_count, data_files_count) ==
    LET key == FamilyKey(ladders_count, data_files_count)
    IN IF key \in DOMAIN fams THEN fams
       ELSE DictPut(fams, key, NewFamily(ladders_count, data_files_count))

\* the example payload made of a rung
ExampleOf(rung) ==
    [raw |-> DictGet(rung, "raw", None),
     tokens |-> DictGet(rung, "tokens", None),
     structural_tokens |-> DictGet(rung, "structural_tokens", None),
     parameter_tokens |-> DictGet(rung, "parameter_tokens", None),
     runtime_tokens |-> DictGet(rung, "runtime_tokens", None)]

\* a faulty variant: the last contributor's payload is the example
LastExample(example, rung) == ExampleOf(rung)

\* if pr["example"] is None: pr["example"] = {...}
KeepExample(example, rung) ==
    IF example = Nothing THEN ExampleOf(rung) ELSE example

\* a faulty variant: the structural bucket lists a program only when the
\* program opens the bucket
FoldRungFirstProgramOnly(lad_rev, program_id, rung_id, rung) ==
    LET rung_no == RungNo(rung_id)
        struct_hash == DictGet(rung, "structural_hash", None)
        param_hash == DictGet(rung, "parameter_hash", None)
        rg == DictGet(lad_rev.rungs, rung_no, NewRung)
        rr == DictGet(rg.revisions, struct_hash, NewRungRev)
        pr == DictGet(rr.parameters, param_hash, NewParam)
        pr2 == [programs |-> pr.programs \cup {program_id},
                example |-> KeepExample(pr.example, rung)]
        rr2 == [programs |-> IF rr.programs = {} THEN {program_id} ELSE rr.programs,
                parameters |-> DictPut(rr.parameters, param_hash, pr2)]
        rg2 == [revisions |-> DictPut(rg.revisions, struct_hash, rr2)]
    IN [lad_rev EXCEPT !.rungs = DictPut(@, rung_no, rg2)]

\* the body of `for rung_id, rung in rung_map.items()`
FoldRung(lad_rev, program_id, rung_id, rung) ==
    LET rung_no == RungNo(rung_id)
        struct_hash == DictGet(rung, "structural_hash", None)
        param_hash == DictGet(rung, "parameter_hash", None)
        rg == DictGet(lad_rev.rungs, rung_no, NewRung)
        rr == DictGet(rg.revisions, struct_hash, NewRungRev)
        pr == DictGet(rr.parameters, param_hash, NewParam)
        pr2 == [programs |-> pr.programs \cup {program_id},
                example |-> KeepExample(pr.example, rung)]
        rr2 == [programs |-> rr.programs \cup {program_id},
                parameters |-> DictPut(rr.parameters, param_hash, pr2)]
        rg2 == [revisions |-> DictPut(rg.revisions, struct_hash, rr2)]
    IN [lad_rev EXCEPT !.rungs = DictPut(@, rung_no, rg2)]

RECURSIVE FoldRungs(_, _, _, _, _)
\* rung_map.items() runs in the order of the document, which the digest
\* builder writes in ascending rung id
FoldRungs(lad_rev, program_id, rung_map, ids, k) ==
    IF k > Len(ids) THEN lad_rev
    ELSE FoldRungs(FoldRung(lad_rev, program_id, ids[k], rung_map[ids[k]]),
                   program_id, rung_map, ids, k + 1)

\* a faulty variant: the count only tells an empty ladder from the others
RungCountCapped(rung_map) == IF DOMAIN rung_map = {} THEN 0 ELSE 1

\* rung_count = len(rung_map)
RungCount(rung_map) == Cardinality(DOMAIN rung_map)

\* a faulty variant: a ladder revision lists only the program that opened it
FoldLadderOpenerOnly(fam_ladders, program_id, ladder_name, ladder_doc) ==
    LET rung_map == DictGet(ladder_doc, "rungs", EmptyDict)
        rung_count == RungCount(rung_map)
        lad == DictGet(fam_ladders, ladder_name, NewLadder)
        lad_rev == DictGet(lad.revisions, rung_count, NewLadRev)
        lad_rev2 == FoldRungs([lad_rev EXCEPT !.programs =
                                    IF @ = {} THEN {program_id} ELSE @],
                              program_id, rung_map, Sorted(DOMAIN rung_map), 1)
    IN DictPut(fam_ladders, ladder_name,
               [revisions |-> DictPut(lad.revisions, rung_count, lad_rev2)])

\* the body of `for ladder_name, ladder in ladders.items()`
FoldLadder(fam_ladders, program_id, ladder_name, ladder_doc) ==
    LET rung_map == DictGet(ladder_doc, "rungs", EmptyDict)
        rung_count == RungCount(rung_map)
        lad == DictGet(fam_ladders, ladder_name, NewLadder)
        lad_rev == DictGet(lad.revisions, rung_count, NewLadRev)
        lad_rev2 == FoldRungs([lad_rev EXCEPT !.programs = @ \cup {program_id}],
                              program_id, rung_map, Sorted(DOMAIN rung_map), 1)
    IN DictPut(fam_ladders, ladder_name,
               [revisions |-> DictPut(lad.revisions, rung_count, lad_rev2)])

RECURSIVE FoldLadders(_, _, _, _, _)
FoldLadders(fam_ladders, program_id, ladders, names, k) ==
    IF k > Len(names) THEN fam_ladders
    ELSE FoldLadders(FoldLadder(fam_ladders, program_id, names[k], ladders[names[k]]),
                     program_id, ladders, names, k + 1)

\* the body of `for idx_path in index_files` for the file f, on the locals
\* st = [families, snapshot_cache]: the exception that leaves the function,
\* or the locals after the iteration.  An exception ends the whole call, so
\* what the iteration had stored before it is lost with the locals.
FoldFile(st, f) ==
    LET loaded == load_json(f.index)
    IN IF loaded.exc # None THEN loaded
       ELSE LET likea == loaded.value
                location == Subscript(likea, "location")
                revision == Subscript(likea, "revision")
            IN IF location.exc # None THEN location
               ELSE IF revision.exc # None THEN revision
               ELSE LET program_id == location.value \o "/" \o revision.value
                        cache_key == f.dir
                        cache == IF cache_key \in DOMAIN st.snapshot_cache
                                 THEN st.snapshot_cache
                                 ELSE DictPut(st.snapshot_cache, cache_key,
                                        _read_program_snapshot(f.snapshot,
                                            f.dir \o "/program_snapshot.json"))
                        snap == cache[cache_key]
                        ladders_count == IF snap # Nothing THEN snap.ladders ELSE NoCount
                        data_files_count == IF snap # Nothing THEN snap.data_files ELSE NoCount
                        fams == get_family(st.families, ladders_count, data_files_count)
                        key == FamilyKey(ladders_count, data_files_count)
                        fam == fams[key]
                        ladders == DictGet(likea, "ladders", EmptyDict)
                    IN IF \E name \in DOMAIN ladders : ~IsMapping(ladders[name])
                       THEN Raise("AttributeError")
                       ELSE Return(
                         [families |-> DictPut(fams, key,
                            [fam EXCEPT
                               !.programs = @ \cup {program_id},
                               !.program_stats =
                                   IF snap # Nothing THEN DictPut(@, program_id, snap) ELSE @,
                               !.ladders = FoldLadders(@, program_id, ladders,
                                                       Sorted(DOMAIN ladders), 1)]),
                          snapshot_cache |-> cache])

RECURSIVE FoldFiles(_, _, _)
\* the loop over the files from position k on, as long as nothing raises
FoldFiles(st, files, k) ==
    IF k > Len(files) THEN Return(st)
    ELSE LET res == FoldFile(st, files[k])
         IN IF res.exc # None THEN res ELSE FoldFiles(res.value, files, k + 1)

\* 10**9
UnknownRank == 1000000000

\* a faulty variant: the unknown footprint sorts first
FamSortKeyUnknownFirst(k) ==
    LET known == IF k[1] # NoCount /\ k[2] # NoCount THEN 1 ELSE 0
    IN <<known, k[1], k[2]>>

fam_sort_key(k) ==
    LET known == IF k[1] # NoCount /\ k[2] # NoCount THEN 0 ELSE 1
    IN <<known,
         IF k[1] # NoCount THEN k[1] ELSE UnknownRank,
         IF k[2] # NoCount THEN k[2] ELSE UnknownRank>>

\* a < b for tuples of three ints
TupleLess(a, b) ==
    \/ a[1] < b[1]
    \/ a[1] = b[1] /\ a[2] < b[2]
    \/ a[1] = b[1] /\ a[2] = b[2] /\ a[3] < b[3]

RECURSIVE SortedFamilies(_)
\* sorted(families.keys(), key=fam_sort_key)
SortedFamilies(S) ==
    IF S = {} THEN <<>>
    ELSE LET m == CHOOSE x \in S :
                    \A y \in S : ~TupleLess(fam_sort_key(y), fam_sort_key(x))
         IN <<m>> \o SortedFamilies(S \ {m})

\* str() of an int
StrInt(n) == IF n < 0 THEN "-" \o Decimal(0 - n) ELSE Decimal(n)

\* str() of an element of a family key
StrCount(n) == IF n = NoCount THEN "None" ELSE StrInt(n)

\* str(fam_key)
StrFamKey(k) == "(" \o StrCount(k[1]) \o ", " \o StrCount(k[2]) \o ")"

\* a dict whose int keys are written with str()
StrKeyed(d) ==
    [s \in {StrInt(n) : n \in DOMAIN d} |-> d[CHOOSE n \in DOMAIN d : StrInt(n) = s]]

ParamsOut(parameters) ==
    [param_hash \in DOMAIN parameters |->
        [programs |-> Sorted(parameters[param_hash].programs),
         example |-> parameters[param_hash].example]]

Revs2Out(revisions) ==
    [struct_hash \in DOMAIN revisions |->
        [programs |-> Sorted(revisions[struct_hash].programs),
         parameters |-> ParamsOut(revisions[struct_hash].parameters)]]

RungsOut(rung_nos) ==
    StrKeyed([rung_no \in DOMAIN rung_nos |->
                [revisions |-> Revs2Out(rung_nos[rung_no].revisions)]])

RevsOut(revisions) ==
    StrKeyed([rung_count \in DOMAIN revisions |->
                [programs |-> Sorted(revisions[rung_count].programs),
                 rungs |-> RungsOut(revisions[rung_count].rungs)]])

LaddersOut(fam_ladders) ==
    [ladder_name \in DOMAIN fam_ladders |->
        [revisions |-> RevsOut(fam_ladders[ladder_name].revisions)]]

\* out[str(fam_key)] = {...}
FamilyOut(fam, fam_key) ==
    [footprint |-> [ladders |-> fam_key[1], data_files |-> fam_key[2]],
     programs |-> Sorted(fam.programs),
     program_stats |-> fam.program_stats,
     ladders |-> LaddersOut(fam.ladders)]

\* the dict `out`: its keys in the order of their insertion, and its items
BuildOut(fams) ==
    LET sorted_keys == SortedFamilies(DOMAIN fams)
    IN [order |-> [k \in 1..Len(sorted_keys) |-> StrFamKey(sorted_keys[k])],
        items |-> [s \in {StrFamKey(k) : k \in DOMAIN fams} |->
                     LET fam_key == CHOOSE k \in DOMAIN fams : StrFamKey(k) = s
                     IN FamilyOut(fams[fam_key], fam_key)]]

\* -------------------------------------------- inputs: revision directories

RungA == "XIC I:1/0 OTE O:2/0"
\* RungA with another instruction, with another address
RungB == "XIO I:1/0 OTE O:2/0"
RungC == "XIC I:1/1 OTE O:2/0"
\* one timer with two accumulator values: equal digests, distinct text
Timer0 == "TON T4:0 1.0 30 0"
Timer5 == "TON T4:0 1.0 30 5"

\* the document likeaversion.run writes in location/revision for LAD2
Lad2Doc(location, revision, rs) ==
    BuildDocument(location, revision, [f \in {"LAD2.raw.txt"} |-> LadderText(rs)])

\* the same with a one-rung LAD3 beside LAD2
Lad23Doc(location, revision, rs) ==
    BuildDocument(location, revision,
        [f \in {"LAD2.raw.txt", "LAD3.raw.txt"} |->
            IF f = "LAD2.raw.txt" THEN LadderText(rs) ELSE LadderText(<<RungA>>)])

\* a program_snapshot.json with n program files and m data files
Snapshot(n, m) ==
    JsonFile([program_files |-> JsonList([k \in 1..n |-> "LAD"]),
              data_files |-> JsonList([k \in 1..m |-> "N7"]),
              identity |-> [processor |-> "SLC"]])

RevDir(dir, index, snapshot) == [dir |-> dir, index |-> index, snapshot |-> snapshot]

\* a document without its "revision" key
WithoutRevision(d) == [k \in DOMAIN d \ {"revision"} |-> d[k]]

\* a document whose LAD2 entry is an array
WithListLadder(d) == [d EXCEPT !.ladders = DictPut(@, "LAD2", JsonList(<<>>))]

\* the revision directories under the scanned root: well-formed revisions of
\* several footprints, a copy of SiteA/r1 kept under another parent,
\* revisions whose snapshot is missing, not JSON, unreadable, an array, or
\* an empty object, and revisions whose index document is broken
RevDirs ==
    {RevDir("root/SiteA/r1", JsonFile(Lad2Doc("SiteA", "r1", <<RungA, Timer0>>)), Snapshot(2, 1)),
     RevDir("root/SiteA/r2", JsonFile(Lad2Doc("SiteA", "r2", <<RungB, Timer5>>)), Snapshot(2, 1)),
     RevDir("root/SiteA/r3", JsonFile(Lad23Doc("SiteA", "r3", <<RungC, Timer0>>)), Snapshot(2, 1)),
     RevDir("root/SiteB/r1", JsonFile(Lad2Doc("SiteB", "r1", <<RungA, Timer0>>)), Snapshot(1, 2)),
     RevDir("root/old/SiteA/r1", JsonFile(Lad2Doc("SiteA", "r1", <<RungA, Timer5>>)), Snapshot(1, 1)),
     RevDir("root/SiteU/r1", JsonFile(Lad2Doc("SiteU", "r1", <<RungA, Timer5>>)), NoFile),
     RevDir("root/SiteU/r2", JsonFile(Lad2Doc("SiteU", "r2", <<RungC, Timer0>>)), BadFile),
     RevDir("root/SiteU/r3", JsonFile(Lad2Doc("SiteU", "r3", <<RungB>>)), Unreadable),
     RevDir("root/SiteU/r4", JsonFile(Lad23Doc("SiteU", "r4", <<RungA>>)), JsonFile(JsonList(<<>>))),
     RevDir("root/SiteE/r1", JsonFile(Lad2Doc("SiteE", "r1", <<RungA>>)), JsonFile(EmptyDict)),
     RevDir("root/SiteD/r1", BadFile, Snapshot(1, 1)),
     RevDir("root/SiteD/r2",
            JsonFile(WithoutRevision(Lad2Doc("SiteD", "r2", <<RungA>>))), Snapshot(1, 1)),
     RevDir("root/SiteD/r3",
            JsonFile(WithListLadder(Lad2Doc("SiteD", "r3", <<RungA>>))), Snapshot(1, 1))}

\* the most index files of one build
MaxFiles == 3

\* the lists of index files: distinct paths, in any order
IndexLists ==
    UNION {{fs \in [1..n -> RevDirs] : \A a, b \in 1..n : a # b => fs[a].dir # fs[b].dir}
            : n \in 0..MaxFiles}

\* ===================================== build_rung_index_from_files, stepwise

InitIndex ==
    /\ index_files \in IndexLists
    /\ idx_pos = 1
    /\ snapshot_cache = EmptyDict
    /\ families = EmptyDict
    /\ out = [order |-> <<>>, items |-> EmptyDict]
    /\ pc = "fold"
    /\ SplitIdle /\ CmpIdle /\ ClsIdle /\ HashIdle /\ RestIdle

IdxRest ==
    UNCHANGED <<splitVars, left_file, right_file, left_idx, right_idx,
                include_all_rungs, report, output_file, clsVars, hashVars,
                restVars>>

\* one iteration of `for idx_path in index_files`; what it raises leaves
\* build_rung_index_from_files
FoldDocument ==
    /\ pc = "fold" /\ idx_pos <= Len(index_files)
    /\ LET res == FoldFile([families |-> families, snapshot_cache |-> snapshot_cache],
                           index_files[idx_pos])
       IN IF res.exc # None
          THEN /\ exc' = res.exc /\ pc' = "raised"
               /\ UNCHANGED <<families, snapshot_cache, idx_pos>>
          ELSE /\ families' = res.value.families
               /\ snapshot_cache' = res.value.snapshot_cache
               /\ idx_pos' = idx_pos + 1
               /\ UNCHANGED <<exc, pc>>
    /\ UNCHANGED <<index_files, out>>
    /\ IdxRest

\* lines 124-172: the families in sorted order, copied into `out`; return out
ReturnIndex ==
    /\ pc = "fold" /\ idx_pos > Len(index_files)
    /\ out' = BuildOut(families)
    /\ pc' = "returned"
    /\ UNCHANGED <<index_files, idx_pos, snapshot_cache, families, exc>>
    /\ IdxRest

NextIndex ==
    \/ FoldDocument
    \/ ReturnIndex

SpecIndex == InitIndex /\ [][NextIndex]_vars

\* =================================================================== ui.py

\* the most worker threads created, items of one run, sleeping resume_after
\* threads, and callbacks waiting in the event loop
MaxWorkers == 2
MaxRunItems == 2
MaxTimers == 1
MaxAfter == 2

\* how many of its phases process_rss_file goes through in the model, each
\* behind a call of _check_pause_and_stop
MaxPhases == 2

Threads == 1..MaxWorkers

\* Thread.is_alive(): started, and its function has not returned yet
is_alive(t) == worker_pc[t] \notin {"unborn", "dead"}

\* proc_thread.is_alive()
proc_alive(t) == proc_pc[t] \in {"check", "stopcheck", "work"}

\* PLCUI.__init__, lines 172-182, and the window as _build_ui leaves it
InitUI ==
    /\ _resume_event = TRUE
    /\ _stop_requested = FALSE
    /\ _restart_current_request = FALSE
    /\ _processing_thread = NoThread
    /\ _missing_pdf_event = FALSE /\ _missing_pdf_action = None
    /\ process_btns = "normal" /\ pause_btn = "normal"
    /\ cancel_dlg = FALSE /\ pdf_dlg = FALSE
    /\ after_queue = <<>> /\ resume_timers = 0
    /\ imports_ok \in BOOLEAN
    /\ started = 0
    /\ worker_pc = [t \in Threads |-> "unborn"]
    /\ n_items = [t \in Threads |-> 0]
    /\ prog_index = [t \in Threads |-> 0]
    /\ proc_pc = [t \in Threads |-> "none"]
    /\ proc_phase = [t \in Threads |-> 0]
    /\ proc_exception = [t \in Threads |-> FALSE]
    /\ run_complete = [t \in Threads |-> FALSE]
    /\ stopping = NoThread /\ user_acted = FALSE
    /\ pc = "ui"
    /\ SplitIdle /\ CmpIdle /\ ClsIdle /\ HashIdle /\ IdxIdle /\ GoodIdle

UiRest ==
    UNCHANGED <<splitVars, cmpVars, clsVars, hashVars, idxVars, goodVars, pc, imports_ok>>

\* a click made after Stop All was chosen during a run that has not ended
Click ==
    /\ user_acted' = (user_acted \/ (stopping # NoThread /\ ~run_complete[stopping]))
    /\ UNCHANGED stopping

\* the main window takes clicks while no dialog holds the grab
MainWindowFree == ~cancel_dlg /\ ~pdf_dlg

\* ------------------------------------------------- the UI thread's handlers

\* _run_items(items) for n items: the guard under _processing_lock, then the
\* thread is created, registered and started
_run_items(n) ==
    IF n = 0
    THEN UNCHANGED <<_processing_thread, started, workerVars>>
    ELSE IF _processing_thread # NoThread /\ is_alive(_processing_thread)
    THEN UNCHANGED <<_processing_thread, started, workerVars>>
    ELSE /\ started < MaxWorkers
         /\ _processing_thread' = started + 1
         /\ started' = started + 1
         /\ worker_pc' = [worker_pc EXCEPT ![started + 1] = "start"]
         /\ n_items' = [n_items EXCEPT ![started + 1] = n]
         /\ UNCHANGED <<prog_index, run_complete>>

\* process_selected / process_new_only: a click on an enabled Process button
ProcessClicked ==
    /\ pc = "ui" /\ MainWindowFree /\ process_btns = "normal"
    /\ \E n \in 0..MaxRunItems : _run_items(n)
    /\ Click
    /\ UNCHANGED <<eventVars, widgetVars, procVars, after_queue, resume_timers>>
    /\ UiRest

\* _toggle_pause: pause at once, or resume five seconds later
PauseClicked ==
    /\ pc = "ui" /\ MainWindowFree /\ pause_btn = "normal"
    /\ IF _resume_event
       THEN /\ _resume_event' = FALSE
            /\ UNCHANGED <<pause_btn, resume_timers>>
       ELSE /\ resume_timers < MaxTimers
            /\ pause_btn' = "disabled"
            /\ resume_timers' = resume_timers + 1
            /\ UNCHANGED _resume_event
    /\ Click
    /\ UNCHANGED <<_stop_requested, _restart_current_request, _missing_pdf_event,
                   _missing_pdf_action, process_btns, cancel_dlg, pdf_dlg,
                   workerVars, procVars, _processing_thread, after_queue, started>>
    /\ UiRest

\* _on_cancel_clicked: the resume event is cleared and the dialog is shown
CancelClicked ==
    /\ pc = "ui" /\ MainWindowFree
    /\ _resume_event' = FALSE
    /\ cancel_dlg' = TRUE
    /\ Click
    /\ UNCHANGED <<_stop_requested, _restart_current_request, _missing_pdf_event,
                   _missing_pdf_action, process_btns, pause_btn, pdf_dlg,
                   workerVars, procVars, _processing_thread, after_queue,
                   resume_timers, started>>
    /\ UiRest

\* _delayed_resume_with_log(5): the Pause button is disabled and a thread is
\* started that sets the resume event after its sleep
_delayed_resume_with_log ==
    /\ resume_timers < MaxTimers
    /\ pause_btn' = "disabled"
    /\ resume_timers' = resume_timers + 1

\* do_cancel_restart
DoCancelRestart ==
    /\ pc = "ui" /\ cancel_dlg /\ ~pdf_dlg
    /\ _restart_current_request' = TRUE
    /\ cancel_dlg' = FALSE
    /\ _delayed_resume_with_log
    /\ Click
    /\ UNCHANGED <<_resume_event, _stop_requested, _missing_pdf_event,
                   _missing_pdf_action, process_btns, pdf_dlg,
                   workerVars, procVars, _processing_thread, after_queue, started>>
    /\ UiRest

\* the worker whose item loop is running
InLoop(t) ==
    worker_pc[t] \in {"loop_top", "pause_check", "wait904", "wait908", "item", "poll",
                      "poll_resume", "wait972", "poll_stop", "after_poll", "finalize",
                      "wait_pdf", "post_item"}

\* do_stop_all: the stop event is set; the resume event stays as it is
DoStopAll ==
    /\ pc = "ui" /\ cancel_dlg /\ ~pdf_dlg
    /\ _stop_requested' = TRUE
    /\ cancel_dlg' = FALSE
    /\ IF stopping = NoThread /\ \E t \in Threads : InLoop(t)
       THEN /\ stopping' = CHOOSE t \in Threads : InLoop(t)
            /\ UNCHANGED user_acted
       ELSE Click
    /\ UNCHANGED <<_resume_event, _restart_current_request, _missing_pdf_event,
                   _missing_pdf_action, process_btns, pause_btn, pdf_dlg,
                   workerVars, procVars, _processing_thread, after_queue,
                   resume_timers, started>>
    /\ UiRest

\* do_resume_only
DoResumeOnly ==
    /\ pc = "ui" /\ cancel_dlg /\ ~pdf_dlg
    /\ cancel_dlg' = FALSE
    /\ _delayed_resume_with_log
    /\ Click
    /\ UNCHANGED <<eventVars, process_btns, pdf_dlg,
                   workerVars, procVars, _processing_thread, after_queue, started>>
    /\ UiRest

\* do_continue / do_cancel_program of the Missing PDF dialog
AnswerMissingPdf(action) ==
    /\ pc = "ui" /\ pdf_dlg
    /\ _missing_pdf_action' = action
    /\ pdf_dlg' = FALSE
    /\ _missing_pdf_event' = TRUE
    /\ Click
    /\ UNCHANGED <<_resume_event, _stop_requested, _restart_current_request,
                   process_btns, pause_btn, cancel_dlg,
                   workerVars, procVars, _processing_thread, after_queue,
                   resume_timers, started>>
    /\ UiRest

DoContinue == AnswerMissingPdf("continue")

DoCancelProgram == AnswerMissingPdf("cancel_program")

\* the event loop runs the oldest callback given to after(0, ...): _on_done
\* of a worker, show_dialog of a prompt, or the lambda that restores the
\* Pause button
RunAfter ==
    /\ pc = "ui" /\ after_queue # <<>>
    /\ after_queue' = Tail(after_queue)
    /\ IF Head(after_queue) = "_on_done"
       THEN /\ process_btns' = "normal"
            /\ _processing_thread' = NoThread
            /\ UNCHANGED <<pause_btn, pdf_dlg>>
       ELSE IF Head(after_queue) = "show_dialog"
       THEN /\ pdf_dlg' = TRUE
            /\ UNCHANGED <<process_btns, pause_btn, _processing_thread>>
       ELSE /\ pause_btn' = "normal"
            /\ UNCHANGED <<process_btns, pdf_dlg, _processing_thread>>
    /\ UNCHANGED <<eventVars, cancel_dlg, workerVars, procVars, ghostVars,
                   resume_timers, started>>
    /\ UiRest

\* ------------------------------------------------------ the resume threads

\* resume_after, once its sleep is over
ResumeAfter ==
    /\ pc = "ui" /\ resume_timers > 0 /\ Len(after_queue) < MaxAfter
    /\ resume_timers' = resume_timers - 1
    /\ _resume_event' = TRUE
    /\ after_queue' = Append(after_queue, "pause_normal")
    /\ UNCHANGED <<_stop_requested, _restart_current_request, _missing_pdf_event,
                   _missing_pdf_action, widgetVars, workerVars, procVars, ghostVars,
                   _processing_thread, started>>
    /\ UiRest

\* ------------------------------------------------------- the worker thread

At(t, p) == pc = "ui" /\ worker_pc[t] = p

Goto(t, p) == worker_pc' = [worker_pc EXCEPT ![t] = p]

\* what a step of a worker that only moves on leaves alone
WorkerOnly ==
    /\ UNCHANGED <<eventVars, widgetVars, procVars, ghostVars,
                   _processing_thread, after_queue, resume_timers, started>>
    /\ UiRest

\* lines 864-867: without the three modules the worker returns at once
WorkerImports(t) ==
    /\ At(t, "start")
    /\ Goto(t, IF imports_ok THEN "setup" ELSE "dead")
    /\ UNCHANGED <<n_items, prog_index, run_complete>>
    /\ WorkerOnly

\* lines 869-892: the Process buttons are disabled; the loop starts at 1
WorkerSetup(t) ==
    /\ At(t, "setup")
    /\ process_btns' = "disabled"
    /\ prog_index' = [prog_index EXCEPT ![t] = 1]
    /\ Goto(t, "loop_top")
    /\ UNCHANGED <<n_items, run_complete>>
    /\ UNCHANGED <<eventVars, pause_btn, cancel_dlg, pdf_dlg, procVars, ghostVars,
                   _processing_thread, after_queue, resume_timers, started>>
    /\ UiRest

\* lines 894-897: the loop ends after the last item, or on a stop request
WorkerLoopTop(t) ==
    /\ At(t, "loop_top")
    /\ Goto(t, IF prog_index[t] > n_items[t] \/ _stop_requested
               THEN "cleanup" ELSE "pause_check")
    /\ UNCHANGED <<n_items, prog_index, run_complete>>
    /\ WorkerOnly

\* line 902
WorkerPauseCheck(t) ==
    /\ At(t, "pause_check")
    /\ Goto(t, IF ~_resume_event THEN "wait904" ELSE "wait908")
    /\ UNCHANGED <<n_items, prog_index, run_complete>>
    /\ WorkerOnly

\* line 904: self._resume_event.wait()
WorkerWait904(t) ==
    /\ At(t, "wait904") /\ _resume_event
    /\ Goto(t, "wait908")
    /\ UNCHANGED <<n_items, prog_index, run_complete>>
    /\ WorkerOnly

\* line 908: self._resume_event.wait()
WorkerWait908(t) ==
    /\ At(t, "wait908") /\ _resume_event
    /\ Goto(t, "item")
    /\ UNCHANGED <<n_items, prog_index, run_complete>>
    /\ WorkerOnly

\* lines 913-926: a row without its four values or a missing file: continue
WorkerSkipItem(t) ==
    /\ At(t, "item")
    /\ prog_index' = [prog_index EXCEPT ![t] = @ + 1]
    /\ Goto(t, "loop_top")
    /\ UNCHANGED <<n_items, run_complete>>
    /\ WorkerOnly

\* lines 928-963: proc_thread is created and started; one left behind by the
\* item before is no longer looked at
WorkerStartItem(t) ==
    /\ At(t, "item")
    /\ proc_pc' = [proc_pc EXCEPT ![t] = "check"]
    /\ proc_phase' = [proc_phase EXCEPT ![t] = 1]
    /\ proc_exception' = [proc_exception EXCEPT ![t] = FALSE]
    /\ Goto(t, "poll")
    /\ UNCHANGED <<n_items, prog_index, run_complete>>
    /\ UNCHANGED <<eventVars, widgetVars, ghostVars,
                   _processing_thread, after_queue, resume_timers, started>>
    /\ UiRest

\* line 969: while proc_thread.is_alive() and waited < max_processing_wait
WorkerPoll(t) ==
    /\ At(t, "poll")
    /\ Goto(t, IF proc_alive(t) THEN "poll_resume" ELSE "after_poll")
    /\ UNCHANGED <<n_items, prog_index, run_complete>>
    /\ WorkerOnly

\* line 969, when the 600 seconds are over and proc_thread still runs
WorkerPollTimeout(t) ==
    /\ At(t, "poll") /\ proc_alive(t)
    /\ Goto(t, "after_poll")
    /\ UNCHANGED <<n_items, prog_index, run_complete>>
    /\ WorkerOnly

\* line 970
WorkerPollResume(t) ==
    /\ At(t, "poll_resume")
    /\ Goto(t, IF ~_resume_event THEN "wait972" ELSE "poll_stop")
    /\ UNCHANGED <<n_items, prog_index, run_complete>>
    /\ WorkerOnly

\* line 972: self._resume_event.wait()
WorkerWait972(t) ==
    /\ At(t, "wait972") /\ _resume_event
    /\ Goto(t, "poll_stop")
    /\ UNCHANGED <<n_items, prog_index, run_complete>>
    /\ WorkerOnly

\* lines 974-977: break on a stop request, else sleep and poll again
WorkerPollStop(t) ==
    /\ At(t, "poll_stop")
    /\ Goto(t, IF _stop_requested THEN "after_poll" ELSE "poll")
    /\ UNCHANGED <<n_items, prog_index, run_complete>>
    /\ WorkerOnly

\* lines 979-987: a proc_thread still alive is asked to cancel and joined for
\* five seconds
WorkerAfterPoll(t) ==
    /\ At(t, "after_poll")
    /\ Goto(t, "finalize")
    /\ UNCHANGED <<n_items, prog_index, run_complete>>
    /\ WorkerOnly

\* lines 990-1013: with an exception the user is prompted (_prompt_missing_pdf,
\* lines 750-751 and 784), without one the item is marked PROCESSED.  The
\* worker never looks at this proc_thread again, so the model forgets it here
\* even when it still runs.
WorkerFinalize(t) ==
    /\ At(t, "finalize")
    /\ IF proc_exception[t]
       THEN /\ Len(after_queue) < MaxAfter
            /\ _missing_pdf_event' = FALSE
            /\ _missing_pdf_action' = None
            /\ after_queue' = Append(after_queue, "show_dialog")
            /\ Goto(t, "wait_pdf")
       ELSE /\ Goto(t, "post_item")
            /\ UNCHANGED <<_missing_pdf_event, _missing_pdf_action, after_queue>>
    /\ proc_pc' = [proc_pc EXCEPT ![t] = "none"]
    /\ proc_phase' = [proc_phase EXCEPT ![t] = 0]
    /\ proc_exception' = [proc_exception EXCEPT ![t] = FALSE]
    /\ UNCHANGED <<n_items, prog_index, run_complete>>
    /\ UNCHANGED <<_resume_event, _stop_requested, _restart_current_request,
                   widgetVars, ghostVars,
                   _processing_thread, resume_timers, started>>
    /\ UiRest

\* line 785: self._missing_pdf_event.wait()
WorkerWaitPdf(t) ==
    /\ At(t, "wait_pdf") /\ _missing_pdf_event
    /\ Goto(t, "post_item")
    /\ UNCHANGED <<n_items, prog_index, run_complete>>
    /\ WorkerOnly

\* lines 1031-1033, and the next turn of the for loop
WorkerPostItem(t) ==
    /\ At(t, "post_item")
    /\ IF _stop_requested
       THEN Goto(t, "cleanup") /\ UNCHANGED prog_index
       ELSE Goto(t, "loop_top") /\ prog_index' = [prog_index EXCEPT ![t] = @ + 1]
    /\ UNCHANGED <<n_items, run_complete>>
    /\ WorkerOnly

\* lines 1036-1039: the stop event is cleared, "Processing run complete"
WorkerCleanup(t) ==
    /\ At(t, "cleanup")
    /\ _stop_requested' = FALSE
    /\ run_complete' = [run_complete EXCEPT ![t] = TRUE]
    /\ Goto(t, "finally")
    /\ UNCHANGED <<n_items, prog_index>>
    /\ UNCHANGED <<_resume_event, _restart_current_request, _missing_pdf_event,
                   _missing_pdf_action, widgetVars, procVars, ghostVars,
                   _processing_thread, after_queue, resume_timers, started>>
    /\ UiRest

\* lines 1040-1050: self.after(0, _on_done)
WorkerFinally(t) ==
    /\ At(t, "finally") /\ Len(after_queue) < MaxAfter
    /\ after_queue' = Append(after_queue, "_on_done")
    /\ Goto(t, "exit")
    /\ UNCHANGED <<n_items, prog_index, run_complete>>
    /\ UNCHANGED <<eventVars, widgetVars, procVars, ghostVars,
                   _processing_thread, resume_timers, started>>
    /\ UiRest

\* worker() returns and the thread ends
WorkerExit(t) ==
    /\ At(t, "exit")
    /\ Goto(t, "dead")
    /\ UNCHANGED <<n_items, prog_index, run_complete>>
    /\ WorkerOnly

\* ------------------------------------- proc_thread: agent.process_rss_file

ProcOnly ==
    /\ UNCHANGED <<eventVars, widgetVars, workerVars, ghostVars,
                   _processing_thread, after_queue, resume_timers, started>>
    /\ UiRest

\* _check_pause_and_stop, lines 29-30: resume_event.wait()
ProcCheckPause(t) ==
    /\ pc = "ui" /\ proc_pc[t] = "check" /\ _resume_event
    /\ proc_pc' = [proc_pc EXCEPT ![t] = "stopcheck"]
    /\ UNCHANGED <<proc_phase, proc_exception>>
    /\ ProcOnly

\* _check_pause_and_stop, lines 31-32: RuntimeError("Stop requested"), which
\* run_processing stores in proc_result
ProcCheckStop(t) ==
    /\ pc = "ui" /\ proc_pc[t] = "stopcheck"
    /\ IF _stop_requested
       THEN /\ proc_pc' = [proc_pc EXCEPT ![t] = "done"]
            /\ proc_exception' = [proc_exception EXCEPT ![t] = TRUE]
       ELSE /\ proc_pc' = [proc_pc EXCEPT ![t] = "work"]
            /\ UNCHANGED proc_exception
    /\ UNCHANGED proc_phase
    /\ ProcOnly

\* a phase of process_rss_file ends: the next check, or the return
ProcPhaseDone(t) ==
    /\ pc = "ui" /\ proc_pc[t] = "work"
    /\ IF proc_phase[t] < MaxPhases
       THEN /\ proc_pc' = [proc_pc EXCEPT ![t] = "check"]
            /\ proc_phase' = [proc_phase EXCEPT ![t] = @ + 1]
       ELSE /\ proc_pc' = [proc_pc EXCEPT ![t] = "done"]
            /\ UNCHANGED proc_phase
    /\ UNCHANGED proc_exception
    /\ ProcOnly

\* a phase of process_rss_file raises
ProcPhaseFails(t) ==
    /\ pc = "ui" /\ proc_pc[t] = "work"
    /\ proc_pc' = [proc_pc EXCEPT ![t] = "done"]
    /\ proc_exception' = [proc_exception EXCEPT ![t] = TRUE]
    /\ UNCHANGED proc_phase
    /\ ProcOnly

\* ---------------------------------------------------------------- the window

WorkerStep(t) ==
    \/ WorkerImports(t)
    \/ WorkerSetup(t)
    \/ WorkerLoopTop(t)
    \/ WorkerPauseCheck(t)
    \/ WorkerWait904(t)
    \/ WorkerWait908(t)
    \/ WorkerStartItem(t)
    \/ WorkerPoll(t)
    \/ WorkerPollResume(t)
    \/ WorkerWait972(t)
    \/ WorkerPollStop(t)
    \/ WorkerAfterPoll(t)
    \/ WorkerFinalize(t)
    \/ WorkerWaitPdf(t)
    \/ WorkerPostItem(t)
    \/ WorkerCleanup(t)
    \/ WorkerFinally(t)
    \/ WorkerExit(t)

ProcStep(t) ==
    \/ ProcCheckPause(t)
    \/ ProcCheckStop(t)
    \/ ProcPhaseDone(t)

NextUI ==
    \/ ProcessClicked
    \/ PauseClicked
    \/ CancelClicked
    \/ DoCancelRestart
    \/ DoStopAll
    \/ DoResumeOnly
    \/ DoContinue
    \/ DoCancelProgram
    \/ RunAfter
    \/ ResumeAfter
    \/ \E t \in Threads : WorkerStep(t)
    \/ \E t \in Threads : WorkerSkipItem(t)
    \/ \E t \in Threads : WorkerPollTimeout(t)
    \/ \E t \in Threads : ProcStep(t)
    \/ \E t \in Threads : ProcPhaseFails(t)

SpecUI == InitUI /\ [][NextUI]_vars

\* the threads are scheduled, the event loop runs its callbacks and a sleep
\* comes to its end; nothing makes the user click, and nothing makes a row
\* be skipped, a phase fail or the 600 seconds run out
SpecUIFair ==
    /\ InitUI /\ [][NextUI]_vars
    /\ \A t \in Threads : WF_vars(WorkerStep(t)) /\ WF_vars(ProcStep(t))
    /\ WF_vars(RunAfter)
    /\ WF_vars(ResumeAfter)

\* ================================================================== claims

\* ---- the splitter's output, stated on the token stream alone
IsMarker(t) == t \in {"SOR", "EOR"}

\* the SOR positions that tokens[j] = EOR closes: no marker lies between
OpenersOf(toks, j) ==
    {i \in 1..(j - 1) : toks[i] = "SOR" /\ \A k \in (i + 1)..(j - 1) : ~IsMarker(toks[k])}

ClosesRun(toks, j) == toks[j] = "EOR" /\ OpenersOf(toks, j) # {}

RunBefore(toks, j) ==
    LET i == CHOOSE i \in OpenersOf(toks, j) : TRUE IN SubSeq(toks, i + 1, j - 1)

ExpectedRuns(toks) ==
    LET js == SelectSeq([j \in 1..Len(toks) |-> j],
                        LAMBDA j : ClosesRun(toks, j) /\ RunBefore(toks, j) # <<"END">>)
    IN [n \in 1..Len(js) |-> str_join(" ", RunBefore(toks, js[n]))]

AtEOR == pc = "loop" /\ idx <= Len(tokens) /\ tokens[idx] = "EOR"

\* C8: an accumulator holding exactly the single token END is never output
\* when its EOR is reached, and every other closed accumulator is appended;
\* "SOR END EOR" yields no rung and the three-rung example yields "A B", "C".
C8_EndFiltered ==
    /\ [](pc \in {"split_done", "done"} =>
            /\ raw_text = ExampleEnd => rung_texts = <<>>
            /\ raw_text = ExampleThree => rung_texts = <<"A B", "C">>)
    /\ [][AtEOR /\ cur.open =>
            IF cur.toks = <<"END">>
            THEN rungs' = rungs
            ELSE rungs' = Append(rungs, cur.toks)]_vars

C8_Witness ==
    /\ pc = "split_done" /\ raw_text = ExampleThree
    /\ rung_texts = <<"A B", "C">>

\* C9: for every token stream the output is, in order, the runs between an
\* EOR and the nearest preceding SOR with no marker between them, minus the
\* single-token END run; an EOR with no open accumulator changes nothing, a
\* token outside an accumulator changes nothing, a second SOR discards what
\* was accumulated, and what is still open at the end of the text is dropped.
C9_SplitExact ==
    /\ [](pc \in {"split_done", "done"} => rung_texts = ExpectedRuns(tokens))
    /\ [][(AtEOR /\ ~cur.open) => (rungs' = rungs /\ cur' = cur)]_vars
    /\ [][(pc = "loop" /\ idx <= Len(tokens) /\ ~IsMarker(tokens[idx]) /\ ~cur.open)
            => (rungs' = rungs /\ cur' = cur)]_vars
    /\ [][(pc = "loop" /\ idx <= Len(tokens) /\ tokens[idx] = "SOR")
            => (rungs' = rungs /\ cur' = OpenCur(<<>>))]_vars
    /\ [][(pc = "loop" /\ idx > Len(tokens)) => Len(rung_texts') = Len(rungs)]_vars

\* the unbalanced text: X and the first EOR lie outside any accumulator, A is
\* discarded by the second SOR, END and the EOR after it follow a closed
\* accumulator, the END rung is filtered and C is never closed
C9_Witness ==
    /\ pc = "split_done"
    /\ raw_text = ExampleUnbalanced
    /\ Len(tokens) = 14
    /\ rung_texts = <<"B">>

\* the four-digit decimal numeral of k
FourDigits(k) ==
    Char(Digits, ((k \div 1000) % 10) + 1) \o Char(Digits, ((k \div 100) % 10) + 1)
        \o Char(Digits, ((k \div 10) % 10) + 1) \o Char(Digits, (k % 10) + 1)

\* C10: the rung ids of a built ladder are exactly 0000..N-1, N the number
\* of rungs the splitter output, and the rung with id k is the k-th rung in
\* the order its end marker was met.
C10_DenseIds ==
    pc = "done" =>
        LET expected == ExpectedRuns(tokens)
            N == Len(expected)
        IN /\ N = Len(rung_texts)
           /\ DOMAIN ladder.rungs = {FourDigits(k) : k \in 0..(N - 1)}
           /\ \A k \in 0..(N - 1) : ladder.rungs[FourDigits(k)].raw = expected[k + 1]

C10_Witness ==
    /\ pc = "done" /\ raw_text = ExampleLong
    /\ Cardinality(DOMAIN ladder.rungs) = LongRungs
    /\ "0010" \in DOMAIN ladder.rungs

\* ---- the comparator

\* compare_revisions has been called on left_idx and right_idx
AfterCompare ==
    \/ pc \in {"compared", "returned"}
    \/ pc = "raised" /\ exc = "KeyError"

\* a document of the shape the digest builder emits
BuilderShape(d) == DOMAIN d = {"location", "revision", "ladders"}

\* the positions at which two token lists of the same length differ
DiffPositions(a, b) == {p \in 1..Len(a) : a[p] # b[p]}

\* documents d and e are equal except for rung rid of ladder name
EqualExceptRung(d, e, name, rid) ==
    /\ DOMAIN d = DOMAIN e
    /\ \A k \in DOMAIN d \ {"ladders"} : d[k] = e[k]
    /\ DOMAIN d.ladders = DOMAIN e.ladders
    /\ name \in DOMAIN d.ladders
    /\ \A n \in DOMAIN d.ladders \ {name} : d.ladders[n] = e.ladders[n]
    /\ DOMAIN d.ladders[name].rungs = DOMAIN e.ladders[name].rungs
    /\ rid \in DOMAIN d.ladders[name].rungs
    /\ \A x \in DOMAIN d.ladders[name].rungs \ {rid} :
            d.ladders[name].rungs[x] = e.ladders[name].rungs[x]

\* d and e are equal except that one token of rung rid of ladder name
\* differs, a token the structural stream holds verbatim on both sides
OneStructuralTokenDiffers(d, e, name, rid) ==
    /\ EqualExceptRung(d, e, name, rid)
    /\ LET a == d.ladders[name].rungs[rid]
           b == e.ladders[name].rungs[rid]
       IN /\ Len(a.tokens) = Len(b.tokens)
          /\ Cardinality(DiffPositions(a.tokens, b.tokens)) = 1
          /\ \A p \in DiffPositions(a.tokens, b.tokens) :
                /\ a.structural_tokens[p] = a.tokens[p]
                /\ b.structural_tokens[p] = b.tokens[p]
          /\ a.structural_hash # b.structural_hash

RECURSIVE TonStarts(_, _)
\* the positions of the TON instructions of a token list, read left to right:
\* a TON with four operands after it, not itself an operand of an earlier one
TonStarts(toks, k) ==
    IF k > Len(toks) THEN {}
    ELSE IF toks[k] = "TON" /\ k + 4 <= Len(toks)
         THEN {k} \cup TonStarts(toks, k + 5)
         ELSE TonStarts(toks, k + 1)

\* d and e are equal except for the accumulator operand of one TON
\* instruction of rung rid of ladder name
OnlyAccumDiffers(d, e, name, rid) ==
    /\ EqualExceptRung(d, e, name, rid)
    /\ LET a == d.ladders[name].rungs[rid].tokens
           b == e.ladders[name].rungs[rid].tokens
       IN /\ Len(a) = Len(b)
          /\ Cardinality(DiffPositions(a, b)) = 1
          /\ \A p \in DiffPositions(a, b) : p - 4 \in TonStarts(a, 1)

RungsOf(d) ==
    {<<n, x>> : n \in DOMAIN d.ladders, x \in {"0000", "0001", "0002", "0003"}}

\* C1: comparing a document of the builder's shape with itself returns a
\* report with summary.status PASS and ladder_differences 0, and does not raise.
C1_SelfComparePasses ==
    (AfterCompare /\ BuilderShape(left_idx) /\ left_idx = right_idx) =>
        /\ exc = None
        /\ report.summary.status = "PASS"
        /\ report.summary.ladder_differences = 0

\* C2: when the two documents are equal except for one structural token of
\* one rung, that rung's ladder is classified logic_difference and the
\* summary status is FAIL.
C2_StructuralChangeFails ==
    AfterCompare =>
        \A nx \in RungsOf(left_idx) :
            OneStructuralTokenDiffers(left_idx, right_idx, nx[1], nx[2]) =>
                /\ exc = None
                /\ report.ladders[normalize_ladder_name(nx[1])].status = "logic_difference"
                /\ report.summary.status = "FAIL"

\* C3: when the two documents differ only in the accumulator operand of one
\* TON instruction, the two rungs have equal structural_hash and equal
\* parameter_hash, and no ladder is classified logic_difference.
C3_AccumNeverLogic ==
    AfterCompare =>
        \A nx \in RungsOf(left_idx) :
            OnlyAccumDiffers(left_idx, right_idx, nx[1], nx[2]) =>
                /\ left_idx.ladders[nx[1]].rungs[nx[2]].structural_hash
                        = right_idx.ladders[nx[1]].rungs[nx[2]].structural_hash
                /\ left_idx.ladders[nx[1]].rungs[nx[2]].parameter_hash
                        = right_idx.ladders[nx[1]].rungs[nx[2]].parameter_hash
                /\ exc = None =>
                        \A id \in DOMAIN report.ladders :
                            report.ladders[id].status # "logic_difference"

C3_Witness ==
    /\ pc = "returned"
    /\ OnlyAccumDiffers(left_idx, right_idx, "LAD2", "0001")
    /\ left_idx.ladders["LAD2"].rungs["0001"].runtime_tokens
            # right_idx.ladders["LAD2"].rungs["0001"].runtime_tokens
    /\ report.ladders["LAD2"].status = "identical"

NonIdentical(rep) == {id \in DOMAIN rep.ladders : rep.ladders[id].status # "identical"}

\* C4: summary.status is FAIL exactly when some ladder entry of the report
\* is not identical, and ladder_differences is the number of such entries.
C4_SummaryCounts ==
    pc = "compared" =>
        /\ report.summary.status = "FAIL" <=> NonIdentical(report) # {}
        /\ report.summary.status \in {"PASS", "FAIL"}
        /\ report.summary.ladder_differences = Cardinality(NonIdentical(report))

UnionKeys == DOMAIN left_idx.ladders \cup DOMAIN right_idx.ladders

\* C5: the report holds exactly one ladder entry for each ladder key of the
\* union of the two documents; a key only the right document has is
\* missing_left and a key only the left document has is missing_right.
C5_OneEntryPerLadder ==
    pc = "compared" =>
        /\ Cardinality(DOMAIN report.ladders) = Cardinality(UnionKeys)
        /\ \A key \in UnionKeys :
              \E id \in DOMAIN report.ladders :
                 /\ report.ladders[id].file = key
                 /\ key \notin DOMAIN left_idx.ladders =>
                        report.ladders[id].status = "missing_left"
                 /\ (key \in DOMAIN left_idx.ladders /\ key \notin DOMAIN right_idx.ladders) =>
                        report.ladders[id].status = "missing_right"

\* the rung ids of ladder key f on either side
RungUnion(f) ==
    DOMAIN DictGet(DictGet(left_idx.ladders, f, EmptyDict), "rungs", EmptyDict)
        \cup DOMAIN DictGet(DictGet(right_idx.ladders, f, EmptyDict), "rungs", EmptyDict)

\* C6: with include_all_rungs false a ladder entry whose status is identical
\* has an empty rungs map; with include_all_rungs true every rung id of the
\* union of both sides has an entry; a drilldown holds no other rung id.
C6_DrilldownCondition ==
    pc = "compared" =>
        \A id \in DOMAIN report.ladders :
            LET e == report.ladders[id]
            IN /\ (~include_all_rungs /\ e.status = "identical") => e.rungs = EmptyDict
               /\ include_all_rungs => DOMAIN e.rungs = RungUnion(e.file)
               /\ DOMAIN e.rungs \subseteq RungUnion(e.file)
               /\ (e.status \in {"missing_left", "missing_right"}) =>
                        DOMAIN e.rungs = RungUnion(e.file)

C6_Witness ==
    /\ pc = "compared" /\ include_all_rungs
    /\ \E id \in DOMAIN report.ladders :
          /\ report.ladders[id].status = "identical"
          /\ Cardinality(DOMAIN report.ladders[id].rungs) = 2

\* the input of run is bad: an index is missing or is not JSON, or lacks a
\* key the report header reads
BadIndex(file) ==
    \/ file.kind # "json"
    \/ \E k \in {"location", "revision", "path"} : k \notin DOMAIN file.doc

BadInput == BadIndex(left_file) \/ BadIndex(right_file)

Raises == pc' = "raised" /\ exc' # None /\ output_file' = NoFile

\* C7: when either index is missing, is not valid JSON or lacks a header
\* field, run raises and the output path is never written; the output is
\* written only after both documents were loaded and the report was built.
C7_FailFast ==
    /\ [](BadInput => (output_file = NoFile /\ pc \notin {"compared", "returned"}))
    /\ [](output_file # NoFile =>
            /\ pc = "returned"
            /\ left_idx = left_file.doc /\ right_idx = right_file.doc
            /\ report = compare_revisions(left_idx, right_idx, FALSE).value
            /\ output_file = JsonFile(report))
    /\ [][(pc = "run" /\ left_file.kind # "json") => Raises]_vars
    /\ [][(pc = "left_loaded" /\ right_file.kind # "json") => Raises]_vars
    /\ [][(pc = "right_loaded" /\ BadInput) => (Raises /\ exc' = "KeyError")]_vars

C7_Witness ==
    /\ pc = "raised" /\ exc = "KeyError"
    /\ left_file.kind = "json" /\ right_file.kind = "json"
    /\ "path" \notin DOMAIN right_file.doc
    /\ output_file = NoFile

\* ------------------------------------------------------------ the classifier

\* C11: the structural stream has the length of the input and holds, at each
\* position, the input token or the placeholder; stated for every prefix the
\* loop has consumed, and for the whole input once the classifier returned.
C11_SameLength ==
    /\ Len(structural_tokens) = tok_i
    /\ tok_i <= Len(tokens)
    /\ \A k \in 1..tok_i : structural_tokens[k] \in {tokens[k], "_"}
    /\ pc = "classified" => Len(structural_tokens) = Len(tokens)

C11_Witness ==
    /\ pc = "classified" /\ Len(tokens) >= 5
    /\ \E k \in 1..Len(tokens) : structural_tokens[k] = "_" /\ tokens[k] # "_"
    /\ \E k \in 1..Len(tokens) : structural_tokens[k] = tokens[k]

\* the loop stands on a TON that at least four tokens follow
AtTon ==
    /\ pc = "classify" /\ tok_i < Len(tokens)
    /\ tokens[tok_i + 1] = "TON"
    /\ Len(tokens) - (tok_i + 1) >= 4

\* C12: a TON at the current position with at least four tokens after it is
\* consumed with them as one unit: the structural stream gains
\* TON _ timebase _ _, the parameters gain the timer then the preset, the
\* runtime values gain the accumulator, and the loop resumes after the five.
C12_TonUnit ==
    [][AtTon =>
        /\ tok_i' = tok_i + 5
        /\ structural_tokens' =
              structural_tokens \o <<"TON", "_", tokens[tok_i + 3], "_", "_">>
        /\ parameter_tokens' =
              parameter_tokens \o <<<<"TON_TIMER", tokens[tok_i + 2]>>,
                                    <<"TON_PRESET", tokens[tok_i + 4]>>>>
        /\ runtime_tokens' = Append(runtime_tokens, <<"TON_ACCUM", tokens[tok_i + 5]>>)
        /\ pc' = "classify"]_vars

\* a TON with exactly four tokens after it, all of them TON or addresses
C12_Witness ==
    /\ pc = "classified" /\ Len(tokens) = 5
    /\ tokens[1] = "TON" /\ tokens[2] = "TON" /\ tokens[3] = "T4:0"
    /\ structural_tokens = <<"TON", "_", "T4:0", "_", "_">>
    /\ Len(parameter_tokens) = 2 /\ Len(runtime_tokens) = 1

\* the address rule, read off the token's characters
AddrLike(t) ==
    \/ \E k \in 1..Len(t) : Char(t, k) \in {":", "/"}
    \/ Len(t) > 0 /\ Char(t, 1) = "#"

\* the loop stands on a token that no TON pattern consumes
AtDefault == pc = "classify" /\ tok_i < Len(tokens) /\ ~AtTon

\* C13: a token outside a TON pattern, a TON with fewer than four tokens
\* after it included, is classified by the default rule alone: an address
\* gives (GENERIC, token) and a placeholder, any other token is copied; the
\* classifier raises nothing and returns with the whole input consumed.
C13_DefaultRule ==
    /\ [](exc = None /\ pc \in {"classify", "classified"})
    /\ [](pc = "classified" => tok_i = Len(tokens))
    /\ [][AtDefault =>
            LET t == tokens[tok_i + 1]
            IN /\ tok_i' = tok_i + 1
               /\ runtime_tokens' = runtime_tokens
               /\ pc' = "classify"
               /\ IF AddrLike(t)
                  THEN /\ parameter_tokens' = Append(parameter_tokens, <<"GENERIC", t>>)
                       /\ structural_tokens' = Append(structural_tokens, "_")
                  ELSE /\ parameter_tokens' = parameter_tokens
                       /\ structural_tokens' = Append(structural_tokens, t)]_vars

\* a TON with three tokens after it stayed structural and its operands
\* were classified one by one
C13_Witness ==
    /\ pc = "classified" /\ Len(tokens) = 4
    /\ tokens = <<"TON", "T4:0", "XIC", "#N7">>
    /\ structural_tokens = <<"TON", "_", "XIC", "_">>
    /\ parameter_tokens = <<<<"GENERIC", "T4:0">>, <<"GENERIC", "#N7">>>>
    /\ runtime_tokens = <<>>

\* ---------------------------------------------------------------- the digest

\* C14: the byte stream fed to the digest encodes the token sequence
\* injectively: rungs with the same structural tokens give the same stream,
\* rungs whose structural tokens or parameter signatures differ give
\* different streams, and the parameter signature lists KEY=VALUE in the
\* order the parameters were met.
C14_InjectiveStream ==
    pc = "digested" =>
        LET a == hash_out[1]
            b == hash_out[2]
        IN /\ (a.record.structural_tokens = b.record.structural_tokens)
                <=> (a.structural_stream = b.structural_stream)
           /\ (a.param_sig = b.param_sig) <=> (a.parameter_stream = b.parameter_stream)
           /\ (a.structural_stream = b.structural_stream)
                <=> (a.record.structural_hash = b.record.structural_hash)
           /\ \A r \in {a, b} :
                /\ Len(r.param_sig) = Len(r.record.parameter_tokens)
                /\ \A k \in 1..Len(r.param_sig) :
                      r.param_sig[k] = r.record.parameter_tokens[k][1] \o "="
                                          \o r.record.parameter_tokens[k][2]

\* ------------------------------------------------------- the alignment index

\* the positions of the files the loop has folded
Folded == 1..(idx_pos - 1)

\* the program id of a revision, read off its document
IdOf(f) == f.index.doc.location \o "/" \o f.index.doc.revision

\* the footprint of a revision, read off its sidecar: the two list lengths,
\* or no footprint when the sidecar is not a readable JSON object
SidecarCounts(f) ==
    IF f.snapshot.kind # "json" THEN <<NoCount, NoCount>>
    ELSE IF "list" \in DOMAIN f.snapshot.doc THEN <<NoCount, NoCount>>
    ELSE <<IF "program_files" \in DOMAIN f.snapshot.doc
           THEN Len(f.snapshot.doc.program_files.list) ELSE 0,
           IF "data_files" \in DOMAIN f.snapshot.doc
           THEN Len(f.snapshot.doc.data_files.list) ELSE 0>>

\* a family of the output lists the program id
FamilyHas(e, id) == \E k \in 1..Len(e.programs) : e.programs[k] = id

FootprintKey(e) == <<e.footprint.ladders, e.footprint.data_files>>

\* C15: in the returned index a revision is in a family exactly when the
\* family's footprint is its own, so that two revisions share a family iff
\* their footprints are equal.
C15_FamilyByFootprint ==
    pc = "returned" =>
        \A k \in 1..Len(index_files) : \A s \in DOMAIN out.items :
            FamilyHas(out.items[s], IdOf(index_files[k]))
                <=> FootprintKey(out.items[s]) = SidecarCounts(index_files[k])

\* C15, amended: there is one family per footprint met, and a program id is
\* in a family's programs exactly when some revision with that id has the
\* family's footprint; revisions of distinct directories that share their
\* location/revision share the id, which is then listed under each of
\* their footprints.
C15_FamilyOfEachRevision ==
    pc = "returned" =>
        /\ {FootprintKey(out.items[s]) : s \in DOMAIN out.items}
              = {SidecarCounts(index_files[k]) : k \in 1..Len(index_files)}
        /\ \A s, t \in DOMAIN out.items :
              FootprintKey(out.items[s]) = FootprintKey(out.items[t]) => s = t
        /\ \A s \in DOMAIN out.items :
              {out.items[s].programs[j] : j \in 1..Len(out.items[s].programs)}
                = {IdOf(index_files[k]) :
                      k \in {j \in 1..Len(index_files) :
                                SidecarCounts(index_files[j]) = FootprintKey(out.items[s])}}

\* two revisions of one footprint share a family, and a copy of the first
\* under another parent, with another footprint, lists the same id elsewhere
C15_Witness ==
    /\ pc = "returned" /\ Len(index_files) = 3
    /\ index_files[1].dir = "root/SiteA/r1"
    /\ index_files[2].dir = "root/SiteA/r2"
    /\ index_files[3].dir = "root/old/SiteA/r1"
    /\ out.items["(2, 1)"].programs = <<"SiteA/r1", "SiteA/r2">>
    /\ out.items["(1, 1)"].programs = <<"SiteA/r1">>

Known(fp) == fp[1] # NoCount /\ fp[2] # NoCount

\* footprint a is to come before footprint b
Precedes(a, b) ==
    \/ Known(a) /\ ~Known(b)
    \/ Known(a) /\ Known(b) /\ (a[1] < b[1] \/ (a[1] = b[1] /\ a[2] < b[2]))

\* C16: the keys of the returned index come with the known footprints
\* first, ascending by ladder count and then by data-file count, and the
\* unknown footprint last, for every order of the input files.
C16_FamilyOrder ==
    pc = "returned" =>
        /\ {out.order[k] : k \in 1..Len(out.order)} = DOMAIN out.items
        /\ \A a, b \in 1..Len(out.order) :
              a < b => Precedes(FootprintKey(out.items[out.order[a]]),
                                FootprintKey(out.items[out.order[b]]))

\* the input lists the unknown footprint first and (1, 2) before (1, 1)
C16_Witness ==
    /\ pc = "returned" /\ Len(index_files) = 3
    /\ SidecarCounts(index_files[1]) = <<NoCount, NoCount>>
    /\ SidecarCounts(index_files[2]) = <<1, 2>>
    /\ SidecarCounts(index_files[3]) = <<1, 1>>
    /\ out.order = <<"(1, 1)", "(1, 2)", "(None, None)">>

\* the rungs of the document at position k, each with the key of the
\* parameter-hash bucket it belongs to and its payload
RungsOfFile(k) ==
    LET f == index_files[k]
        ladders == f.index.doc.ladders
    IN UNION {{[key |-> [fp |-> SidecarCounts(f),
                         name |-> n,
                         count |-> Cardinality(DOMAIN ladders[n].rungs),
                         rung_no |-> RungNo(id),
                         sh |-> ladders[n].rungs[id].structural_hash,
                         ph |-> ladders[n].rungs[id].parameter_hash],
                 payload |-> [raw |-> ladders[n].rungs[id].raw,
                              tokens |-> ladders[n].rungs[id].tokens,
                              structural_tokens |-> ladders[n].rungs[id].structural_tokens,
                              parameter_tokens |-> ladders[n].rungs[id].parameter_tokens,
                              runtime_tokens |-> ladders[n].rungs[id].runtime_tokens]]
                : id \in DOMAIN ladders[n].rungs}
              : n \in DOMAIN ladders}

\* the positions, among the folded ones, of the documents with a rung of key B
Contributors(B) == {k \in Folded : \E c \in RungsOfFile(k) : c.key = B}

FirstContributor(B) == CHOOSE k \in Contributors(B) : \A j \in Contributors(B) : k <= j

\* the keys of the parameter-hash buckets of a dict of families
BucketKeys(fams) ==
    UNION {UNION {UNION {UNION {UNION {
        {[fp |-> fp, name |-> n, count |-> c, rung_no |-> r, sh |-> sh, ph |-> ph]
            : ph \in DOMAIN fams[fp].ladders[n].revisions[c].rungs[r].revisions[sh].parameters}
        : sh \in DOMAIN fams[fp].ladders[n].revisions[c].rungs[r].revisions}
        : r \in DOMAIN fams[fp].ladders[n].revisions[c].rungs}
        : c \in DOMAIN fams[fp].ladders[n].revisions}
        : n \in DOMAIN fams[fp].ladders}
        : fp \in DOMAIN fams}

ParamBucket(fams, B) ==
    fams[B.fp].ladders[B.name].revisions[B.count].rungs[B.rung_no]
        .revisions[B.sh].parameters[B.ph]

\* the same bucket in the returned dict
OutBucket(B) ==
    LET s == CHOOSE t \in DOMAIN out.items : FootprintKey(out.items[t]) = B.fp
    IN out.items[s].ladders[B.name].revisions[StrInt(B.count)].rungs[StrInt(B.rung_no)]
          .revisions[B.sh].parameters[B.ph]

\* what the bucket of key B is to hold
BucketAsExpected(pr, B) ==
    /\ pr.programs = {IdOf(index_files[k]) : k \in Contributors(B)}
    /\ \E c \in RungsOfFile(FirstContributor(B)) : c.key = B /\ pr.example = c.payload

\* C17: after each document folded, the buckets are those of the rungs
\* folded so far, each holds the program ids of the documents with such a
\* rung and the payload of the first of them in input order; a bucket's
\* example is never replaced; the returned index holds the same.
C17_FirstExampleWins ==
    /\ [](pc \in {"fold", "returned"} =>
            /\ BucketKeys(families) = UNION {{c.key : c \in RungsOfFile(k)} : k \in Folded}
            /\ \A B \in BucketKeys(families) : BucketAsExpected(ParamBucket(families, B), B))
    /\ [](pc = "returned" =>
            \A B \in BucketKeys(families) :
                /\ OutBucket(B).example = ParamBucket(families, B).example
                /\ {OutBucket(B).programs[j] : j \in 1..Len(OutBucket(B).programs)}
                      = ParamBucket(families, B).programs
                /\ Len(OutBucket(B).programs) = Cardinality(ParamBucket(families, B).programs))
    /\ [][\A B \in BucketKeys(families) :
            /\ B \in BucketKeys(families')
            /\ ParamBucket(families', B).example = ParamBucket(families, B).example
            /\ ParamBucket(families, B).programs \subseteq ParamBucket(families', B).programs]_vars

\* a bucket with two contributors whose payloads differ kept the first
C17_Witness ==
    /\ pc = "returned"
    /\ \E B \in BucketKeys(families) :
          /\ Cardinality(Contributors(B)) >= 2
          /\ \E k \in Contributors(B) : \E c \in RungsOfFile(k) :
                c.key = B /\ c.payload # ParamBucket(families, B).example

\* the sidecar is missing, unreadable, not JSON or not a JSON object
BadSidecar(f) ==
    \/ f.snapshot.kind # "json"
    \/ "list" \in DOMAIN f.snapshot.doc

\* the index document cannot be folded
BrokenIndex(f) ==
    \/ f.index.kind # "json"
    \/ "location" \notin DOMAIN f.index.doc
    \/ "revision" \notin DOMAIN f.index.doc
    \/ \E n \in DOMAIN f.index.doc.ladders : "list" \in DOMAIN f.index.doc.ladders[n]

GoodSidecar(f) == ~BadSidecar(f)

KnownPart(fams) == [fp \in {x \in DOMAIN fams : Known(x)} |-> fams[fp]]

\* C18: a folded revision whose sidecar is missing, unreadable or malformed
\* is in the unknown-footprint family with all its rungs and without
\* statistics; the build raises only on a broken index document; and the
\* families of known footprint are what the other revisions alone give.
C18_UnknownFootprint ==
    /\ pc = "raised" => BrokenIndex(index_files[idx_pos])
    /\ \A k \in Folded :
          BadSidecar(index_files[k]) =>
            /\ <<NoCount, NoCount>> \in DOMAIN families
            /\ IdOf(index_files[k]) \in families[<<NoCount, NoCount>>].programs
            /\ IdOf(index_files[k]) \notin DOMAIN families[<<NoCount, NoCount>>].program_stats
            /\ \A c \in RungsOfFile(k) :
                  /\ c.key.fp = <<NoCount, NoCount>>
                  /\ c.key \in BucketKeys(families)
                  /\ IdOf(index_files[k]) \in ParamBucket(families, c.key).programs
    /\ KnownPart(families)
          = FoldFiles([families |-> EmptyDict, snapshot_cache |-> EmptyDict],
                      SelectSeq(SubSeq(index_files, 1, idx_pos - 1), GoodSidecar),
                      1).value.families

\* a revision of known footprint between one without sidecar and one whose
\* sidecar is not JSON
C18_Witness ==
    /\ pc = "returned" /\ Len(index_files) = 3
    /\ index_files[1].snapshot = NoFile
    /\ index_files[2].snapshot = Snapshot(2, 1)
    /\ index_files[3].snapshot = BadFile
    /\ out.order = <<"(2, 1)", "(None, None)">>
    /\ Len(out.items["(None, None)"].programs) = 2

\* C19: a document that fails locally does not abort the build: the build
\* returns, and every revision whose document is sound is in the index.
C19_LocalFailureTolerated ==
    /\ pc # "raised"
    /\ pc = "returned" =>
          \A k \in 1..Len(index_files) :
              ~BrokenIndex(index_files[k]) =>
                  \E s \in DOMAIN out.items :
                      FamilyHas(out.items[s], IdOf(index_files[k]))

\* the positions of the folded documents of footprint fp whose ladder n has
\* c rungs
LadderContributors(fp, n, c) ==
    {k \in Folded :
        /\ SidecarCounts(index_files[k]) = fp
        /\ n \in DOMAIN index_files[k].index.doc.ladders
        /\ Cardinality(DOMAIN index_files[k].index.doc.ladders[n].rungs) = c}

\* C20: within a family a ladder's revision bucket is keyed by ladder name
\* and rung count alone: it lists exactly the revisions whose ladder of that
\* name has that many rungs, whatever the rungs say, and under each rung
\* number the structural hashes met, each with the parameter hashes met.
C20_LadderRevisionBuckets ==
    /\ \A fp \in DOMAIN families : \A n \in DOMAIN families[fp].ladders :
          \A c \in DOMAIN families[fp].ladders[n].revisions :
              /\ LadderContributors(fp, n, c) # {}
              /\ families[fp].ladders[n].revisions[c].programs
                    = {IdOf(index_files[k]) : k \in LadderContributors(fp, n, c)}
              /\ \A r \in DOMAIN families[fp].ladders[n].revisions[c].rungs :
                    DOMAIN families[fp].ladders[n].revisions[c].rungs[r].revisions
                      = {x.key.sh : x \in {y \in UNION {RungsOfFile(k) : k \in LadderContributors(fp, n, c)} :
                                              y.key.name = n /\ y.key.rung_no = r}}
    /\ \A k \in Folded : \A n \in DOMAIN index_files[k].index.doc.ladders :
          LET fp == SidecarCounts(index_files[k])
              c == Cardinality(DOMAIN index_files[k].index.doc.ladders[n].rungs)
          IN /\ fp \in DOMAIN families
             /\ n \in DOMAIN families[fp].ladders
             /\ c \in DOMAIN families[fp].ladders[n].revisions

\* two revisions whose LAD2 has two rungs share a bucket, with two
\* structural hashes under rung 0; a third, whose LAD2 has one rung, has
\* its own bucket
C20_Witness ==
    /\ pc = "returned"
    /\ <<NoCount, NoCount>> \in DOMAIN families
    /\ LET revs == families[<<NoCount, NoCount>>].ladders["LAD2"].revisions
       IN /\ DOMAIN revs = {1, 2}
          /\ Cardinality(revs[2].programs) = 2
          /\ Cardinality(DOMAIN revs[2].rungs[0].revisions[_hash_tokens(<<"XIC", "_", "OTE", "_">>)].parameters) = 2
          /\ Cardinality(revs[1].programs) = 1

\* ------------------------------------------- the comparator's statuses

\* the value d.get(k) of a ladder or rung dict
HashOf(d, k) == IF k \in DOMAIN d THEN d[k] ELSE None

\* the ladder entry e is of a ladder key both documents have
OnBothSides(e) ==
    e.file \in DOMAIN left_idx.ladders /\ e.file \in DOMAIN right_idx.ladders

\* C21: for a ladder present on both sides the status is logic_difference
\* whenever the ladder-level structural hashes differ, whatever the
\* parameter hashes; parameter_difference only when the structural hashes
\* are equal and the parameter hashes differ; identical only when both
\* pairs are equal.
C21_StructuralPrecedence ==
    pc = "compared" =>
        \A id \in DOMAIN report.ladders :
            LET e == report.ladders[id]
                l == left_idx.ladders[e.file]
                r == right_idx.ladders[e.file]
                sdiff == HashOf(l, "ladder_structural_hash") # HashOf(r, "ladder_structural_hash")
                pdiff == HashOf(l, "ladder_parameter_hash") # HashOf(r, "ladder_parameter_hash")
            IN OnBothSides(e) =>
                /\ sdiff => e.status = "logic_difference"
                /\ e.status = "parameter_difference" <=> (~sdiff /\ pdiff)
                /\ e.status = "identical" <=> (~sdiff /\ ~pdiff)
                /\ e.status \in {"logic_difference", "parameter_difference", "identical"}

\* both pairs of ladder-level hashes differ and the status is logic_difference
C21_Witness ==
    /\ pc = "compared"
    /\ \E id \in DOMAIN report.ladders :
          LET e == report.ladders[id]
          IN /\ OnBothSides(e)
             /\ e.left_ladder_struct_hash \notin {None, e.right_ladder_struct_hash}
             /\ e.right_ladder_struct_hash # None
             /\ e.left_ladder_param_hash \notin {None, e.right_ladder_param_hash}
             /\ e.right_ladder_param_hash # None
             /\ e.status = "logic_difference"

\* the drilldown of the ladder entry e is computed
DrilledDown(e) == include_all_rungs \/ e.status # "identical"

\* the rungs dict of ladder key f on one side, empty when the side lacks it
SideRungs(d, f) ==
    IF f \in DOMAIN d.ladders /\ "rungs" \in DOMAIN d.ladders[f]
    THEN d.ladders[f].rungs ELSE EmptyDict

\* C22: in a drilldown a rung of both sides is different exactly when its
\* structural hashes or its parameter hashes differ, each marked in its own
\* field, and identical otherwise; a rung only the right side has is
\* missing_left, one only the left side has is missing_right; identical
\* rungs are left out unless include_all_rungs is set.
C22_RungStatuses ==
    pc = "compared" =>
        \A id \in DOMAIN report.ladders :
            LET e == report.ladders[id]
                lrs == SideRungs(left_idx, e.file)
                rrs == SideRungs(right_idx, e.file)
            IN DrilledDown(e) =>
                \A x \in DOMAIN lrs \cup DOMAIN rrs :
                    IF x \notin DOMAIN lrs
                    THEN x \in DOMAIN e.rungs /\ e.rungs[x].status = "missing_left"
                    ELSE IF x \notin DOMAIN rrs
                    THEN x \in DOMAIN e.rungs /\ e.rungs[x].status = "missing_right"
                    ELSE LET sdiff == HashOf(lrs[x], "structural_hash")
                                        # HashOf(rrs[x], "structural_hash")
                             pdiff == HashOf(lrs[x], "parameter_hash")
                                        # HashOf(rrs[x], "parameter_hash")
                         IN /\ x \in DOMAIN e.rungs <=> (include_all_rungs \/ sdiff \/ pdiff)
                            /\ x \in DOMAIN e.rungs =>
                                 /\ e.rungs[x].status = "different" <=> (sdiff \/ pdiff)
                                 /\ e.rungs[x].status = "identical" <=> ~(sdiff \/ pdiff)
                                 /\ e.rungs[x].structural = "different" <=> sdiff
                                 /\ e.rungs[x].structural = "same" <=> ~sdiff
                                 /\ e.rungs[x].parameters = "different" <=> pdiff
                                 /\ e.rungs[x].parameters = "same" <=> ~pdiff

\* without include_all_rungs, a drilldown that lists a rung whose parameter
\* hashes alone differ and leaves out an identical rung
C22_Witness ==
    /\ pc = "compared" /\ ~include_all_rungs
    /\ \E id \in DOMAIN report.ladders :
          LET e == report.ladders[id]
          IN /\ OnBothSides(e)
             /\ DOMAIN e.rungs = {"0000"}
             /\ e.rungs["0000"].status = "different"
             /\ e.rungs["0000"].structural = "same"
             /\ e.rungs["0000"].parameters = "different"
             /\ "0001" \in DOMAIN SideRungs(left_idx, e.file)
             /\ "0001" \in DOMAIN SideRungs(right_idx, e.file)

\* C24: with include_all_rungs, a ladder entry whose status is identical has
\* no rung entry of another status than identical, and a rung-level
\* difference or a rung missing on one side makes the summary FAIL.
C24_IdenticalLadderIdenticalRungs ==
    (pc = "compared" /\ include_all_rungs) =>
        \A id \in DOMAIN report.ladders :
            LET e == report.ladders[id]
            IN /\ e.status = "identical" =>
                    \A x \in DOMAIN e.rungs : e.rungs[x].status = "identical"
               /\ (\E x \in DOMAIN e.rungs : e.rungs[x].status # "identical") =>
                    report.summary.status = "FAIL"

\* ---- the two splitters

\* the token runs an accumulator can hold: sequences of tokens that are not
\* markers
TokenRuns == TokenSeqs(SplitVocab \ {"SOR", "EOR"}, MaxTokens)

AtCleanEOR == pc = "clean_loop" /\ idx <= Len(tokens) /\ tokens[idx] = "EOR"

\* C23, as stated: some token run between markers is filtered by one of the
\* two END tests (joined text equal to END; exactly one token, equal to END)
\* and kept by the other.
C23_EndFiltersDisagree ==
    \E run \in TokenRuns \cup {current} : IsEndText(run) # IsEndRung(run)

\* C23, amended: the two END tests agree on every token run: on every
\* accumulator normalize_lad_text closes they give the same answer, and
\* neither splitter outputs the rung END.
C23_EndFiltersAgree ==
    /\ AtCleanEOR => (IsEndText(current) <=> IsEndRung(current))
    /\ pc \in {"normalized", "clean_written"} =>
          /\ \A k \in 1..Len(rung_texts) : rung_texts[k] # "END"
          /\ \A k \in 1..Len(_split_rungs(raw_text)) : _split_rungs(raw_text)[k] # "END"

\* the END rung of the three-rung example reaches its EOR after a rung was
\* appended: both tests catch it
C23_Witness ==
    /\ AtCleanEOR /\ raw_text = ExampleThree
    /\ current = <<"END">> /\ rungs = <<"A B">>
    /\ IsEndText(current) /\ IsEndRung(current)

\* every EOR closes an accumulator that a SOR opened, and none of these
\* accumulators is empty
WellFormed(toks) ==
    \A j \in 1..Len(toks) :
        toks[j] = "EOR" => (ClosesRun(toks, j) /\ RunBefore(toks, j) # <<>>)

\* C27: on a text in which every EOR closes an accumulator opened by a SOR
\* and no closed accumulator is empty, normalize_lad_text returns the list
\* _split_rungs returns, and the number written before each rung of
\* LADxxx.clean.txt is the rung id the index builder gives that rung.
C27_SplittersAgree ==
    (pc \in {"normalized", "clean_written"} /\ WellFormed(tokens)) =>
        /\ rung_texts = _split_rungs(raw_text)
        /\ pc = "clean_written" =>
              /\ Len(clean_file) = Len(rung_texts)
              /\ DOMAIN process_ladder_file(raw_text).rungs
                    = {RungId(k - 1) : k \in 1..Len(clean_file)}
              /\ \A k \in 1..Len(clean_file) :
                    clean_file[k]
                      = RungId(k - 1) \o " | "
                          \o process_ladder_file(raw_text).rungs[RungId(k - 1)].raw

\* a well-formed text with tokens outside the markers, a restarted
\* accumulator and an END rung between two kept rungs
C27_Witness ==
    /\ pc = "clean_written" /\ WellFormed(tokens)
    /\ raw_text = ExampleThree
    /\ clean_file = <<"0000 | A B", "0001 | C">>

\* ---- the alignment index: program sets and input order

\* the elements of a list
SeqSet(q) == {q[k] : k \in 1..Len(q)}

\* the program sets of a family are nested down to its parameter buckets,
\* and a structural bucket lists the programs of its parameter buckets;
\* P(x) is the set of programs the entry x lists
NestedIn(fam, P(_)) ==
    \A n \in DOMAIN fam.ladders : \A c \in DOMAIN fam.ladders[n].revisions :
        LET lr == fam.ladders[n].revisions[c]
        IN /\ P(lr) \subseteq P(fam)
           /\ \A r \in DOMAIN lr.rungs : \A sh \in DOMAIN lr.rungs[r].revisions :
                LET rr == lr.rungs[r].revisions[sh]
                IN /\ P(rr) \subseteq P(lr)
                   /\ \A ph \in DOMAIN rr.parameters : P(rr.parameters[ph]) \subseteq P(rr)
                   /\ P(rr) = UNION {P(rr.parameters[ph]) : ph \in DOMAIN rr.parameters}

ProgramSet(x) == x.programs
ProgramList(x) == SeqSet(x.programs)

\* C25: at every level the programs of a parameter bucket are among those of
\* its structural bucket, these among those of the ladder's rung-count
\* revision, these among those of the family; a structural bucket lists
\* exactly the programs of its parameter buckets. This holds after every
\* document folded and in the returned index.
C25_NestedPrograms ==
    /\ \A fp \in DOMAIN families : NestedIn(families[fp], ProgramSet)
    /\ pc = "returned" => \A s \in DOMAIN out.items : NestedIn(out.items[s], ProgramList)

\* a returned index with a structural bucket of two programs, split over two
\* parameter buckets, in a ladder revision that lists a third program
C25_Witness ==
    /\ pc = "returned"
    /\ \E s \in DOMAIN out.items : \E n \in DOMAIN out.items[s].ladders :
         \E c \in DOMAIN out.items[s].ladders[n].revisions :
           LET lr == out.items[s].ladders[n].revisions[c]
           IN \E r \in DOMAIN lr.rungs : \E sh \in DOMAIN lr.rungs[r].revisions :
                LET rr == lr.rungs[r].revisions[sh]
                IN /\ Len(rr.programs) = 2
                   /\ Cardinality(DOMAIN rr.parameters) = 2
                   /\ \A ph \in DOMAIN rr.parameters : Len(rr.parameters[ph].programs) = 1
                   /\ Len(lr.programs) = 3

\* ---- the classifier as a function of the token sequence

\* the triple _classify_tokens returned for a digested rung
TripleOf(r) ==
    <<r.record.structural_tokens, r.record.parameter_tokens, r.record.runtime_tokens>>

\* C26: _classify_tokens is lossless: two rungs with different token
\* sequences never get the same triple of structural, parameter and runtime
\* tokens, and a token "_" of the text is told from a placeholder.
C26_Lossless ==
    pc = "digested" =>
        (hash_out[1].record.tokens # hash_out[2].record.tokens
            => TripleOf(hash_out[1]) # TripleOf(hash_out[2]))

\* the returned dict without the example payloads of its buckets: the family
\* keys in their order and, per family, the footprint, the programs, the
\* stats, and every key and program list below
WithoutExamples(o) ==
    [order |-> o.order,
     items |-> [s \in DOMAIN o.items |->
        [footprint |-> o.items[s].footprint,
         programs |-> o.items[s].programs,
         program_stats |-> o.items[s].program_stats,
         ladders |-> [n \in DOMAIN o.items[s].ladders |->
            [c \in DOMAIN o.items[s].ladders[n].revisions |->
                LET lr == o.items[s].ladders[n].revisions[c]
                IN [programs |-> lr.programs,
                    rungs |-> [r \in DOMAIN lr.rungs |->
                       [sh \in DOMAIN lr.rungs[r].revisions |->
                           LET rr == lr.rungs[r].revisions[sh]
                           IN [programs |-> rr.programs,
                               parameters |-> [ph \in DOMAIN rr.parameters |->
                                   rr.parameters[ph].programs]]]]]]]]]]

\* the orders the files of the list fs can be given in
Reorderings(fs) ==
    {[k \in 1..Len(fs) |-> fs[p[k]]] :
        p \in {q \in [1..Len(fs) -> 1..Len(fs)] : \A a, b \in 1..Len(fs) : a # b => q[a] # q[b]}}

\* what build_rung_index_from_files returns for the list fs
IndexOf(fs) ==
    BuildOut(FoldFiles([families |-> EmptyDict, snapshot_cache |-> EmptyDict], fs, 1)
                .value.families)

DistinctIds(fs) ==
    \A a, b \in 1..Len(fs) : a # b => IdOf(fs[a]) # IdOf(fs[b])

\* C28: for index documents with distinct program ids, the returned index is
\* the same for every order of the input list but for the example payloads:
\* the same family keys in the same order, the same ladder, rung-count,
\* rung-number, structural-hash and parameter-hash keys, and the same sorted
\* program list at every level.
C28_OrderIndependent ==
    (pc = "returned" /\ DistinctIds(index_files)) =>
        \A fs \in Reorderings(index_files) :
            /\ FoldFiles([families |-> EmptyDict, snapshot_cache |-> EmptyDict], fs, 1).exc = None
            /\ WithoutExamples(IndexOf(fs)) = WithoutExamples(out)

\* three documents of one family whose other orders give another index,
\* different in an example payload only
C28_Witness ==
    /\ pc = "returned" /\ DistinctIds(index_files) /\ Len(index_files) = 3
    /\ Len(out.order) = 1
    /\ \E fs \in Reorderings(index_files) : IndexOf(fs) # out

\* ---- the window's processing run

AliveWorkers == IF pc = "ui" THEN {t \in Threads : is_alive(t)} ELSE {}

\* C29: at most one worker thread of _run_items is alive at any time,
\* whatever the order of the clicks, of the start and the end of the workers
\* and of the _on_done callbacks.
C29_SingleWorker == Cardinality(AliveWorkers) <= 1

\* C30: once Stop All was chosen in the Cancel dialog while a run was in its
\* item loop, that run logs "Processing run complete" without any further
\* click: the worker does not stay blocked on the resume event that the
\* Cancel click cleared.
C30_StopAllEndsRun ==
    (pc = "ui" /\ stopping # NoThread)
        ~> (user_acted \/ (stopping # NoThread /\ run_complete[stopping]))

====
